---------------------------- MODULE Spec2Model ----------------------------
(***************************************************************************)
(* A model of the Eduripple backend's curriculum pipeline: the curriculum  *)
(* store (curriculum_db.py, admin_curriculum.py), the text extractors and  *)
(* page filter (cbc_parser.py), the table parser and its batch run         *)
(* (cbc_parser_new.py), the competency classifier, the curriculum query    *)
(* and the template generators (lesson_generator.py), the AI providers     *)
(* behind chat (gemini_integration.py) and the task scheduler              *)
(* (background_tasks.py).                                                  *)
(*                                                                         *)
(* Python strings are TLA+ strings; TLC evaluates Len, Head, Tail, SubSeq  *)
(* and \o on them, so the string functions below work character by        *)
(* character as the Python code does.  The bullet character U+2022 cannot  *)
(* be written in a TLA+ string and is written "@" throughout.              *)
(***************************************************************************)
EXTENDS Integers, Sequences, FiniteSets, TLC

VARIABLES
    curriculum,     \* the rows of table curriculum (a set of records)
    seq,            \* sqlite_sequence of the table: the last rowid handed out
    lastCall,       \* the most recent call on the store (an insert with its arguments)
    repeated,       \* TRUE when that call was an insert repeating the call before it
    items,          \* the argument of _classify_competency_items
    classified,     \* its four result lists, once it has returned
    reclassified,   \* the result lists of a second call on the same list
    doc,            \* the pages of the PDF handed to parse_pdf (their get_text() results)
    nlines,         \* how many lines of the line pool the page of a one-page PDF holds
    bulk,           \* how many numbered lines follow them
    parsed,         \* what parse_pdf computed, once it has run
    script,         \* the script of the batch run: "cbc_parser" or "cbc_parser_new"
    pdfs,           \* the files of the directory, in the order the loop of main takes them
    processed,      \* how many of them the loop has been through
    parsed_all,     \* the dict main fills: the records by file stem
    out_file,       \* cbc_parsed.json, once main has written it
    aborted,        \* TRUE when an exception has ended main
    success_count,  \* how many files main of cbc_parser_new.py counts as parsed and stored
    invoked,        \* a pipeline function of cbc_parser.py called on its own, with its arguments
    outcome,        \* how that call ended: it raised, or the value it returned
    ai_services,    \* gemini_ai and openrouter_ai as their constructors left them
    conversation,   \* a call of chat: its arguments, the providers it called, its result
    scheduler,      \* the fields of the BackgroundTaskScheduler
    threads,        \* where each monitor thread started so far is in _monitor_loop
    caller          \* where the thread that calls start() and stop() is

storeVars == <<curriculum, seq, lastCall, repeated>>

classifyVars == <<items, classified, reclassified>>

parseVars == <<doc, nlines, bulk, parsed>>

batchVars == <<script, pdfs, processed, parsed_all, out_file, aborted, success_count>>

callVars == <<invoked, outcome>>

chatVars == <<ai_services, conversation>>

schedulerVars == <<scheduler, threads, caller>>

serviceVars == <<chatVars, schedulerVars>>

vars == <<storeVars, classifyVars, parseVars, batchVars, callVars, serviceVars>>

\* what each component leaves alone
notStore == <<classifyVars, parseVars, batchVars, callVars, serviceVars>>

notClassify == <<storeVars, parseVars, batchVars, callVars, serviceVars>>

notParse == <<storeVars, classifyVars, batchVars, callVars, serviceVars>>

notBatch == <<classifyVars, parseVars, callVars, serviceVars>>

notCall == <<storeVars, classifyVars, parseVars, batchVars, serviceVars>>

notChat == <<storeVars, classifyVars, parseVars, batchVars, callVars, schedulerVars>>

notScheduler == <<storeVars, classifyVars, parseVars, batchVars, callVars, chatVars>>

-----------------------------------------------------------------------------
(* Python's str and re primitives                                          *)

\* the character at position i, "" outside the string
Ch(s, i) == IF 1 <= i /\ i <= Len(s) THEN SubSeq(s, i, i) ELSE ""

Min(S) == CHOOSE x \in S : \A y \in S : x <= y

Max(S) == CHOOSE x \in S : \A y \in S : x >= y

\* the elements of list at the indices I, in list order
SubseqAt(list, I) ==
    [k \in 1..Cardinality(I) |->
        list[CHOOSE i \in I : Cardinality({j \in I : j < i}) = k - 1]]

\* list(dict.fromkeys(list)): the first occurrence of every element
DedupExact(list) ==
    SubseqAt(list, {i \in 1..Len(list) : \A j \in 1..(i - 1) : list[j] # list[i]})

UpperCase == <<"A","B","C","D","E","F","G","H","I","J","K","L","M",
               "N","O","P","Q","R","S","T","U","V","W","X","Y","Z">>

LowerCase == <<"a","b","c","d","e","f","g","h","i","j","k","l","m",
               "n","o","p","q","r","s","t","u","v","w","x","y","z">>

LowerChar(c) ==
    IF \E k \in 1..26 : UpperCase[k] = c
    THEN LowerCase[CHOOSE k \in 1..26 : UpperCase[k] = c]
    ELSE c

\* the concatenation piece[lo] \o ... \o piece[hi]
RECURSIVE ConcatRange(_, _, _)
ConcatRange(piece, lo, hi) ==
    IF lo > hi THEN ""
    ELSE IF lo = hi THEN piece[lo]
    ELSE LET mid == (lo + hi) \div 2
         IN  ConcatRange(piece, lo, mid) \o ConcatRange(piece, mid + 1, hi)

Concat(pieces) == ConcatRange(pieces, 1, Len(pieces))

\* sep.join(list)
Join(list, sep) ==
    Concat([k \in 1..Len(list) |-> IF k = 1 THEN list[k] ELSE sep \o list[k]])

Lower(s) == Concat([i \in 1..Len(s) |-> LowerChar(Ch(s, i))])

IsSpace(c) == c \in {" ", "\n", "\t", "\r"}

\* str.strip(chars): drop leading and trailing characters that are in chars
StripChars(s, chars) ==
    LET keep == {i \in 1..Len(s) : Ch(s, i) \notin chars}
    IN  IF keep = {} THEN "" ELSE SubSeq(s, Min(keep), Max(keep))

Strip(s) == StripChars(s, {" ", "\n", "\t", "\r"})

\* s[i - 1:].startswith(w), compared character by character
StartsAt(s, i, w) ==
    /\ i >= 1
    /\ i + Len(w) - 1 <= Len(s)
    /\ \A k \in 1..Len(w) : Ch(s, i + k - 1) = Ch(w, k)

StartsWith(s, w) == StartsAt(s, 1, w)

EndsWith(s, w) == Len(w) <= Len(s) /\ StartsAt(s, Len(s) - Len(w) + 1, w)

Contains(s, w) == \E i \in 1..(Len(s) - Len(w) + 1) : StartsAt(s, i, w)

\* Regular expressions are matched as sets of positions: P holds the positions
\* (index of the next character to read) the pattern so far can have reached.
Lit(s, P, w) == {p + Len(w) : p \in {q \in P : StartsAt(s, q, w)}}

OptLit(s, P, w) == P \cup Lit(s, P, w)

\* the end of the run of characters of set that starts at position p
RECURSIVE RunEnd(_, _, _)
RunEnd(s, p, set) == IF Ch(s, p) \in set THEN RunEnd(s, p + 1, set) ELSE p

\* one or more characters of set
Run1(s, P, set) == UNION {(p + 1)..RunEnd(s, p, set) : p \in P}

\* \s+ : one or more white-space characters
Spaces1(s, P) == Run1(s, P, {" ", "\n", "\t", "\r"})

\* \s* : any number of white-space characters
Spaces0(s, P) == P \cup Spaces1(s, P)

\* what is left of s after the match that ends before position p
After(s, p) == SubSeq(s, p, Len(s))

IsDigit(c) == c \in {"0", "1", "2", "3", "4", "5", "6", "7", "8", "9"}

IsUpper(c) == \E k \in 1..26 : UpperCase[k] = c

AllChars(s, set) == \A i \in 1..Len(s) : Ch(s, i) \in set

\* v bound to the parameter of Body, as the code binds a local variable
Let(v, Body(_)) == Body(v)

\* [F(x) for x in list]
MapSeq(list, F(_)) == [k \in 1..Len(list) |-> F(list[k])]

\* list[:n]
Take(list, n) == SubSeq(list, 1, IF Len(list) < n THEN Len(list) ELSE n)

\* the items of list that satisfy keep, in order
Filter(list, keep(_)) == SubseqAt(list, {k \in 1..Len(list) : keep(list[k])})

\* the flattening of a list of lists
RECURSIVE Flatten(_)
Flatten(lists) == IF lists = <<>> THEN <<>> ELSE Head(lists) \o Flatten(Tail(lists))

\* the loop "key = item.lower(); if key in seen: continue": first occurrences,
\* compared through key
DedupBy(list, key(_)) ==
    LET keys == [k \in 1..Len(list) |-> key(list[k])]
    IN  SubseqAt(list, {i \in 1..Len(list) : \A j \in 1..(i - 1) : keys[j] # keys[i]})

DedupLower(list) == DedupBy(list, Lower)

\* any(word in s for word in words)
ContainsAny(s, words) == \E w \in words : Contains(s, w)

\* \d+ : one or more digits
Digits1(s, P) == Run1(s, P, {"0", "1", "2", "3", "4", "5", "6", "7", "8", "9"})

\* \d* : any number of digits
Digits0(s, P) == P \cup Digits1(s, P)

\* one of several literals
AnyLit(s, P, words) == UNION {Lit(s, P, w) : w \in words}

\* the end of the longest match among the ends P, 0 when there is no match
MatchEnd(P) == IF P = {} THEN 0 ELSE Max(P)

\* re.split(sep, s) for a separator that never matches the empty string:
\* sepEnd[i] is the end of the separator match that starts at i, 0 when none
RECURSIVE SplitFrom(_, _, _)
SplitFrom(s, sepEnd, pos) ==
    LET starts == {i \in pos..Len(s) : sepEnd[i] # 0}
    IN  IF starts = {} THEN <<SubSeq(s, pos, Len(s))>>
        ELSE <<SubSeq(s, pos, Min(starts) - 1)>> \o SplitFrom(s, sepEnd, sepEnd[Min(starts)])

IsWordChar(c) ==
    \/ IsDigit(c)
    \/ c = "_"
    \/ \E k \in 1..26 : UpperCase[k] = c \/ LowerCase[k] = c

\* str.split("\n") (also re.split(r"\n|\r", ...) once "\r" is excluded by seps)
SplitOn(s, seps) ==
    LET cut == {i \in 1..Len(s) : Ch(s, i) \in seps}
        n == Cardinality(cut)
        at(k) == IF k = 0 THEN 0
                 ELSE IF k = n + 1 THEN Len(s) + 1
                 ELSE CHOOSE i \in cut : Cardinality({j \in cut : j < i}) = k - 1
    IN  [k \in 1..(n + 1) |-> SubSeq(s, at(k - 1) + 1, at(k) - 1)]

SplitLines(s) == SplitOn(s, {"\n"})

\* str.replace(old, new) for an old that cannot overlap itself
ReplaceAll(s, old, new) ==
    Concat([i \in 1..Len(s) |->
        IF StartsAt(s, i, old) THEN new
        ELSE IF \E d \in 1..(Len(old) - 1) : StartsAt(s, i - d, old) THEN ""
        ELSE Ch(s, i)])

\* re.sub(r"\s+", " ", s): every run of white space becomes one space
CollapseSpaces(s) ==
    Concat([i \in 1..Len(s) |->
        IF ~IsSpace(Ch(s, i)) THEN Ch(s, i)
        ELSE IF i > 1 /\ IsSpace(Ch(s, i - 1)) THEN ""
        ELSE " "])

-----------------------------------------------------------------------------
(* json.dumps / json.loads on a list of strings free of quotes and         *)
(* backslashes (the items of the pools below)                              *)

QUOTE == "\""

RECURSIVE json_items(_)
json_items(list) ==
    IF list = <<>> THEN ""
    ELSE QUOTE \o Head(list) \o QUOTE
         \o (IF Tail(list) = <<>> THEN "" ELSE ", " \o json_items(Tail(list)))

json_dumps(list) == "[" \o json_items(list) \o "]"

\* the strings between the 1st and 2nd, the 3rd and 4th, ... quote of text
json_loads(text) ==
    LET q == {i \in 1..Len(text) : Ch(text, i) = QUOTE}
        nth(k) == CHOOSE i \in q : Cardinality({j \in q : j < i}) = k - 1
    IN  [k \in 1..(Cardinality(q) \div 2) |->
            SubSeq(text, nth(2 * k - 1) + 1, nth(2 * k) - 1)]

-----------------------------------------------------------------------------
(* curriculum_db.py: the curriculum table and its accessors                *)

NULL == "<NULL>"        \* SQL NULL / JSON null / Python None in a text column

ListFields == <<"learning_outcomes", "key_inquiry_questions",
                "suggested_learning_experiences", "core_competencies", "values">>

\* the score (completed / 7) * 100, kept exact as numerator and denominator
Score(completed, total) == [num |-> completed * 100, den |-> total]

\* x or '' for a text field that may be None
OrEmpty(x) == IF x = NULL THEN "" ELSE x

\* the score with a check of the outcomes that asks for three of them
calculate_completeness_three_outcomes(data) ==
    LET checks == <<
            Len(Strip(OrEmpty(data.strand))) > 0,
            Len(Strip(OrEmpty(data.substrand))) > 0,
            Len(data.learning_outcomes) >= 3,
            Len(data.key_inquiry_questions) >= 3,
            Len(data.suggested_learning_experiences) >= 5,
            Len(data.core_competencies) >= 2,
            Len(data.values) >= 2 >>
        completed == Cardinality({k \in 1..Len(checks) : checks[k]})
    IN  Score(completed, Len(checks))

calculate_completeness(data) ==
    LET checks == <<
            Len(Strip(OrEmpty(data.strand))) > 0,
            Len(Strip(OrEmpty(data.substrand))) > 0,
            Len(data.learning_outcomes) >= 2,
            Len(data.key_inquiry_questions) >= 3,
            Len(data.suggested_learning_experiences) >= 5,
            Len(data.core_competencies) >= 2,
            Len(data.values) >= 2 >>
        completed == Cardinality({k \in 1..Len(checks) : checks[k]})
    IN  Score(completed, Len(checks))

parse_curriculum_row(row) ==
    [id |-> row.id,
     subject |-> row.subject,
     grade |-> row.grade,
     strand |-> row.strand,
     substrand |-> row.substrand,
     learning_outcomes |-> json_loads(row.learning_outcomes),
     key_inquiry_questions |-> json_loads(row.key_inquiry_questions),
     suggested_learning_experiences |-> json_loads(row.suggested_learning_experiences),
     core_competencies |-> json_loads(row.core_competencies),
     values |-> json_loads(row.curriculum_values),
     status |-> row.status,
     completeness_score |-> row.completeness_score,
     notes |-> row.notes]

\* the values insert_curriculum binds to the statement (data_to_store)
data_to_store(subject, grade, data, status) ==
    [subject |-> subject,
     grade |-> grade,
     strand |-> data.strand,
     substrand |-> data.substrand,
     learning_outcomes |-> json_dumps(data.learning_outcomes),
     key_inquiry_questions |-> json_dumps(data.key_inquiry_questions),
     suggested_learning_experiences |-> json_dumps(data.suggested_learning_experiences),
     core_competencies |-> json_dumps(data.core_competencies),
     curriculum_values |-> json_dumps(data.values),
     status |-> status,
     completeness_score |-> calculate_completeness(data)]

\* no UNIQUE constraint at all
ConflictNever(row, d) == FALSE

\* UNIQUE(subject, grade): TEXT columns compare with the BINARY collation
Conflict(row, d) == row.subject = d.subject /\ row.grade = d.grade

\* INSERT OR REPLACE: the conflicting row deleted, a new row inserted
UpsertReplacing(table, rowid, d) ==
    {row \in table : ~Conflict(row, d)}
        \cup {[id |-> rowid,
               subject |-> d.subject,
               grade |-> d.grade,
               strand |-> d.strand,
               substrand |-> d.substrand,
               learning_outcomes |-> d.learning_outcomes,
               key_inquiry_questions |-> d.key_inquiry_questions,
               suggested_learning_experiences |-> d.suggested_learning_experiences,
               core_competencies |-> d.core_competencies,
               curriculum_values |-> d.curriculum_values,
               status |-> d.status,
               completeness_score |-> d.completeness_score,
               notes |-> NULL]}

\* INSERT ... ON CONFLICT(subject, grade) DO UPDATE SET ...
Upsert(table, rowid, d) ==
    IF \E row \in table : Conflict(row, d)
    THEN {IF Conflict(row, d)
          THEN [row EXCEPT !.strand = d.strand,
                           !.substrand = d.substrand,
                           !.learning_outcomes = d.learning_outcomes,
                           !.key_inquiry_questions = d.key_inquiry_questions,
                           !.suggested_learning_experiences = d.suggested_learning_experiences,
                           !.core_competencies = d.core_competencies,
                           !.curriculum_values = d.curriculum_values,
                           !.status = d.status,
                           !.completeness_score = d.completeness_score]
          ELSE row : row \in table}
    ELSE table \cup {[id |-> rowid,
                      subject |-> d.subject,
                      grade |-> d.grade,
                      strand |-> d.strand,
                      substrand |-> d.substrand,
                      learning_outcomes |-> d.learning_outcomes,
                      key_inquiry_questions |-> d.key_inquiry_questions,
                      suggested_learning_experiences |-> d.suggested_learning_experiences,
                      core_competencies |-> d.core_competencies,
                      curriculum_values |-> d.curriculum_values,
                      status |-> d.status,
                      completeness_score |-> d.completeness_score,
                      notes |-> NULL]}

\* the UPDATE statement update_curriculum builds from the request body
ApplyBody(row, body) ==
    [f \in DOMAIN row |->
        IF f \in {"strand", "substrand", "status", "notes"} /\ f \in DOMAIN body
        THEN body[f]
        ELSE IF f = "curriculum_values" /\ "values" \in DOMAIN body
        THEN json_dumps(body["values"])
        ELSE IF f \in {"learning_outcomes", "key_inquiry_questions",
                       "suggested_learning_experiences", "core_competencies"}
                /\ f \in DOMAIN body
        THEN json_dumps(body[f])
        ELSE row[f]]

\* the subjects, grades, records and request bodies the store is driven with
Subjects == {"maths", "Maths"}

Grades == {"Grade 7"}

EmptyData ==
    [strand |-> "", substrand |-> "",
     learning_outcomes |-> <<>>, key_inquiry_questions |-> <<>>,
     suggested_learning_experiences |-> <<>>, core_competencies |-> <<>>,
     values |-> <<>>]

PartData ==
    [strand |-> "1.1 Numbers", substrand |-> " ",
     learning_outcomes |-> <<"identify fractions", "compare fractions">>,
     key_inquiry_questions |-> <<"What is a fraction?">>,
     suggested_learning_experiences |-> <<>>, core_competencies |-> <<>>,
     values |-> <<"Unity">>]

FullData ==
    [strand |-> "1.1 Numbers", substrand |-> "Fractions",
     learning_outcomes |-> <<"identify fractions", "compare fractions">>,
     key_inquiry_questions |-> <<"What is a fraction?", "Why share?", "How many parts?">>,
     suggested_learning_experiences |->
        <<"discuss in groups", "read aloud", "write a sum", "observe a cake", "present work">>,
     core_competencies |-> <<"Critical thinking", "Digital literacy">>,
     values |-> <<"Unity", "Respect">>]

\* strand set, substrand empty, 2 outcomes, 0 questions, 6 experiences,
\* 3 competencies, 0 values
ScenarioData ==
    [strand |-> "Numbers", substrand |-> "",
     learning_outcomes |-> <<"identify fractions", "compare fractions">>,
     key_inquiry_questions |-> <<>>,
     suggested_learning_experiences |->
        <<"discuss in groups", "read aloud", "write a sum", "observe a cake", "present work",
          "draw a number line">>,
     core_competencies |-> <<"Critical thinking", "Digital literacy", "Communication">>,
     values |-> <<>>]

DataPool == {EmptyData, PartData, FullData, ScenarioData}

BodyPool ==
    {[strand |-> "Numbers"],
     [substrand |-> "Fractions", status |-> "reviewed"],
     [learning_outcomes |-> <<>>, values |-> <<"Unity", "Respect">>, notes |-> "checked"],
     [status |-> "approved"]}

MaxInserts == 3

StoreInit ==
    /\ curriculum = {}
    /\ seq = 0
    /\ lastCall = [op |-> "none"]
    /\ repeated = FALSE

\* insert_curriculum(subject, grade, data): every caller leaves status at its
\* default; the upsert takes a rowid from sqlite_sequence whether it inserts
\* or updates
InsertCurriculum(subject, grade, data) ==
    LET call == [op |-> "insert", subject |-> subject, grade |-> grade, data |-> data]
    IN  /\ seq < MaxInserts
        /\ curriculum' = Upsert(curriculum, seq + 1,
                                data_to_store(subject, grade, data, "auto_extracted"))
        /\ seq' = seq + 1
        /\ repeated' = (lastCall = call)
        /\ lastCall' = call

\* POST /admin/curriculum/api/<id> with a JSON body
UpdateCurriculum(curriculum_id, body) ==
    LET call == [op |-> "update"]
    IN  /\ curriculum' = {IF row.id = curriculum_id THEN ApplyBody(row, body) ELSE row :
                            row \in curriculum}
        /\ repeated' = FALSE
        /\ lastCall' = call
        /\ UNCHANGED seq


-----------------------------------------------------------------------------
(* cbc_parser.py: text normalisation and line cleaning                     *)

\* re.sub(r"\n{3,}", "\n\n", s): the third and later newlines of a run go
CollapseBlankLines(s) ==
    Concat([i \in 1..Len(s) |->
        IF Ch(s, i) = "\n" /\ i > 2 /\ Ch(s, i - 1) = "\n" /\ Ch(s, i - 2) = "\n"
        THEN "" ELSE Ch(s, i)])

\* The mis-encoded sequences of normalize_text are not ASCII; their
\* characters are written with these stand-ins, which the texts of the model
\* use for nothing else:  ^ a-circumflex, ~ euro sign, } trade mark sign,
\* { small tilde, < oe ligature, > U+009D, _ en dash as mis-decoded,
\* = em dash as mis-decoded, | A-circumflex.
replacements ==
    << <<"^~}", "'">>, <<"^~{", "'">>, <<"^~<", QUOTE>>, <<"^~>", QUOTE>>,
       <<"^~_", "-">>, <<"^~=", "-">>, <<"|", "">> >>

RECURSIVE ApplyReplacements(_, _)
ApplyReplacements(text, k) ==
    IF k = 0 THEN text
    ELSE ReplaceAll(ApplyReplacements(text, k - 1), replacements[k][1], replacements[k][2])

\* the blank lines collapsed before the carriage returns are folded
normalize_text_collapse_first(text) ==
    ReplaceAll(CollapseBlankLines(ApplyReplacements(text, Len(replacements))), "\r", "\n")

normalize_text(text) ==
    CollapseBlankLines(
        ReplaceAll(ApplyReplacements(text, Len(replacements)), "\r", "\n"))

meaningful_line(line) ==
    Let(Strip(line), LAMBDA cleaned :
        /\ cleaned # ""
        /\ ~AllChars(Lower(cleaned), {"i", "v", "x", "l", "c", "d", "m"})
        /\ ~AllChars(cleaned, {"0", "1", "2", "3", "4", "5", "6", "7", "8", "9"})
        /\ Len(cleaned) >= 2)

\* re.sub(r"\s+", " ", line).strip()
CleanLine(line) == Strip(CollapseSpaces(line))

clean_lines(text) ==
    MapSeq(Filter(MapSeq(SplitLines(text), Strip), meaningful_line), CleanLine)

-----------------------------------------------------------------------------
(* cbc_parser.py: parse_subject_grade and extract_strand_substrand         *)

UpperChar(c) ==
    IF \E k \in 1..26 : LowerCase[k] = c
    THEN UpperCase[CHOOSE k \in 1..26 : LowerCase[k] = c]
    ELSE c

IsLetter(c) == \E k \in 1..26 : UpperCase[k] = c \/ LowerCase[k] = c

\* str.title(): a letter is upper-cased after a non-letter, lower-cased after a letter
Title(s) ==
    Concat([i \in 1..Len(s) |->
        IF IsLetter(Ch(s, i - 1)) THEN LowerChar(Ch(s, i)) ELSE UpperChar(Ch(s, i))])

DigitValue(c) == CHOOSE d \in 0..9 : <<"0", "1", "2", "3", "4", "5", "6", "7", "8", "9">>[d + 1] = c

\* int(digits)
RECURSIVE ParseInt(_)
ParseInt(digits) ==
    IF digits = "" THEN 0
    ELSE 10 * ParseInt(SubSeq(digits, 1, Len(digits) - 1)) + DigitValue(Ch(digits, Len(digits)))

\* r"_grade_(\d+)" matched at position i of the lower-cased stem: its end or 0
GradeTag(low, i) == MatchEnd(Digits1(low, Lit(low, {i}, "_grade_")))

\* parse_subject_grade of cbc_parser.py; grade is <<n>> for the integer n and
\* <<>> for None
parse_subject_grade(stem) ==
    Let(ReplaceAll(IF EndsWith(Lower(stem), ".pdf") THEN SubSeq(stem, 1, Len(stem) - 4) ELSE stem,
                   "-", "_"), LAMBDA normalized :
    Let(Lower(normalized), LAMBDA low :
    Let({i \in 1..Len(low) : GradeTag(low, i) # 0}, LAMBDA tags :
        [subject |->
            Title(Strip(ReplaceAll(
                Concat([i \in 1..Len(normalized) |->
                    IF \E t \in tags : t <= i /\ i < GradeTag(low, t) THEN ""
                    ELSE Ch(normalized, i)]),
                "_", " "))),
         grade |->
            IF tags = {} THEN <<>>
            ELSE <<ParseInt(SubSeq(normalized, Min(tags) + 7, GradeTag(low, Min(tags)) - 1))>>])))

\* r"summary of|sub strands|grade\s*\d|\.\.\." searched in the lower-cased value
IsSummaryValue(low) ==
    \/ ContainsAny(low, {"summary of", "sub strands", "..."})
    \/ \E i \in 1..Len(low) : Digits1(low, Spaces0(low, Lit(low, {i}, "grade"))) # {}

\* the value that extract_first_field reads from one line, "" when the line
\* does not match or its value is rejected; field is given in lower case
FieldValue(line, field) ==
    Let(Lower(line), LAMBDA low :
    Let(Spaces0(low, Lit(low, {1}, field)), LAMBDA sp :
    Let({g \in Spaces0(low, sp \cup AnyLit(low, sp, {":", "-"})) : g <= Len(line)}, LAMBDA G :
    Let(IF G = {} THEN "" ELSE StripChars(After(line, Max(G)), {" ", ".", ":", "-"}), LAMBDA value :
    Let(Lower(StripChars(value, {" ", ",", ":", "-"})), LAMBDA normalized :
        IF \/ Len(value) < 3
           \/ normalized \in {"the", "the learner", "learner", "sub strand", "strand"}
           \/ StartsWith(normalized, "the learner")
           \/ IsSummaryValue(Lower(value))
        THEN "" ELSE value)))))

\* the first item of list that is not "", "" when there is none
FirstNonEmpty(list) ==
    LET hit == {k \in 1..Len(list) : list[k] # ""}
    IN  IF hit = {} THEN "" ELSE list[Min(hit)]

extract_first_field(lines, field) ==
    FirstNonEmpty(MapSeq(lines, LAMBDA line : FieldValue(line, field)))

\* r"^\d+\.\d+" read from the start of the line
TwoLevelNumber(line) == Digits1(line, Lit(line, Digits1(line, {1}), "."))

looks_like_heading(line) ==
    Let(Strip(line), LAMBDA text :
    Let(TwoLevelNumber(text), LAMBDA two :
        /\ Len(text) >= 6
        /\ Len(text) <= 120
        /\ ~ContainsAny(Lower(text), {"learner", "suggested", "assessment", "question", "experience"})
        /\ Spaces1(text, two \cup Digits1(text, Lit(text, two, "."))) # {}))

\* the first heading numbered on two levels ("1.2 ..."), "" when there is none
FirstTwoLevelHeading(headings) ==
    FirstNonEmpty(MapSeq(headings, LAMBDA line :
        IF Spaces1(line, TwoLevelNumber(line)) # {} THEN line ELSE ""))

\* the first heading numbered under the number that strand starts with, ""
\* when strand does not start with a two-level number or no heading follows it
FirstHeadingUnder(headings, strand) ==
    Let(MatchEnd(TwoLevelNumber(strand)), LAMBDA parent :
        IF parent = 0 \/ IsWordChar(Ch(strand, parent)) THEN ""
        ELSE FirstNonEmpty(MapSeq(headings, LAMBDA line :
                 IF StartsWith(line, SubSeq(strand, 1, parent - 1) \o ".") THEN line ELSE "")))

extract_strand_substrand(lines) ==
    Let(extract_first_field(lines, "strand"), LAMBDA field :
    Let(extract_first_field(lines, "sub-strand"), LAMBDA subfield :
    Let(Filter(lines, looks_like_heading), LAMBDA headings :
    Let(IF field # "" THEN field ELSE FirstTwoLevelHeading(headings), LAMBDA strand :
        [strand |-> strand,
         substrand |-> IF subfield # "" \/ strand = "" THEN subfield
                       ELSE FirstHeadingUnder(headings, strand)]))))

-----------------------------------------------------------------------------
(* cbc_parser.py: extract_question_lines                                   *)

\* the position of the first newline at or after p, Len(s) + 1 when none
LineEnd(s, p) ==
    LET nl == {i \in p..Len(s) : Ch(s, i) = "\n"}
    IN  IF nl = {} THEN Len(s) + 1 ELSE Min(nl)

HasQuestionMark(s, from, to) == \E i \in from..to : Ch(s, i) = "?"

\* kiq_pattern up to group 1: the positions where group 1 can start when the
\* heading is read from position i of the lower-cased text
KiqHeading(low, i) ==
    Let(Spaces0(low,
            OptLit(low,
                Lit(low,
                    Spaces1(low, Lit(low, Spaces1(low, Lit(low, {i}, "key")), "inquiry")
                                     \cup Lit(low, {i}, "inquiry")),
                    "question"),
                "s")), LAMBDA sp :
        Spaces0(low, sp \cup Lit(low, sp, ":") \cup Lit(low, sp, "-")))

\* (?:\n[^?\n]*\?[^\n]*)* : from the line end e, the end of the last of the
\* directly following lines that hold a question mark
RECURSIVE KiqExtend(_, _)
KiqExtend(text, e) ==
    IF e > Len(text) THEN e
    ELSE LET next == LineEnd(text, e + 1)
         IN  IF HasQuestionMark(text, e + 1, next - 1) THEN KiqExtend(text, next) ELSE e

\* group 1 of kiq_pattern matched at i as [from, to), to = 0 when there is no
\* match at i; the greedy quantifiers of the heading give back nothing that
\* could help: what they would give back holds no question mark
KiqGroup(text, low, i) ==
    Let(MatchEnd(KiqHeading(low, i)), LAMBDA g :
    Let(LineEnd(text, g), LAMBDA e :
        IF g # 0 /\ HasQuestionMark(text, g, e - 1)
        THEN [from |-> g, to |-> KiqExtend(text, e)]
        ELSE [from |-> 0, to |-> 0]))

\* re.findall(kiq_pattern, full_text, re.IGNORECASE | re.MULTILINE)
RECURSIVE KiqMatches(_, _, _)
KiqMatches(text, low, from) ==
    Let({i \in from..Len(text) :
            /\ StartsAt(low, i, "key") \/ StartsAt(low, i, "inquiry")
            /\ KiqGroup(text, low, i).to # 0}, LAMBDA starts :
        IF starts = {} THEN <<>>
        ELSE Let(KiqGroup(text, low, Min(starts)), LAMBDA m :
                 <<SubSeq(text, m.from, m.to - 1)>> \o KiqMatches(text, low, m.to)))

\* "page \d"
ContainsPageDigit(low) ==
    \E i \in 1..Len(low) : StartsAt(low, i, "page ") /\ IsDigit(Ch(low, i + 5))

QuestionLength(s) == 8 <= Len(s) /\ Len(s) <= 300

\* Pattern 1: the items of the explicit "Key Inquiry Questions" sections
KiqItems(full_text) ==
    Filter(MapSeq(Flatten(MapSeq(KiqMatches(full_text, Lower(full_text), 1),
                                 LAMBDA match : SplitOn(match, {"\n", ";"}))),
                  LAMBDA item : Strip(StripChars(item, {" ", "-", "@"}))),
           LAMBDA item : QuestionLength(item) /\ Contains(item, "?"))

\* Pattern 2: the lines that hold a question mark and no boilerplate word
QuestionLines(lines) ==
    Filter(MapSeq(lines, Strip), LAMBDA line :
        /\ Contains(line, "?")
        /\ ~ContainsAny(Lower(line), {"table", "contents", "grade", "subject", "strand"})
        /\ ~ContainsPageDigit(Lower(line))
        /\ QuestionLength(line))

\* where the match of r"[A-Z][^?]*\?" that ends at the question mark q starts:
\* at the first capital letter after the question mark before q; 0 when there
\* is no capital letter in between
SentenceStart(text, marks, q) ==
    Let({i \in (Max({0} \cup {m \in marks : m < q}) + 1)..(q - 1) : IsUpper(Ch(text, i))},
        LAMBDA caps : IF caps = {} THEN 0 ELSE Min(caps))

\* Pattern 3: re.findall(r"[A-Z][^?]*\?", full_text): for every question
\* mark, the text from the first capital letter after the previous match
QuestionSentences(full_text) ==
    Let({i \in 1..Len(full_text) : Ch(full_text, i) = "?"}, LAMBDA marks :
        Filter(MapSeq(SubseqAt([q \in 1..Len(full_text) |->
                                   IF q \in marks
                                   THEN SubSeq(full_text, SentenceStart(full_text, marks, q), q)
                                   ELSE ""],
                               {q \in marks : SentenceStart(full_text, marks, q) # 0}),
                      Strip),
               LAMBDA match :
                   /\ QuestionLength(match)
                   /\ ~ContainsAny(Lower(match), {"table", "page", "grade", "subject"})))

\* "if not q_clean.endswith("?"): q_clean += "?"", without the append
QuestionMarkNeverAppended(q_clean) == q_clean

\* "if not q_clean.endswith("?"): q_clean += "?""
EnsureQuestionMark(q_clean) ==
    IF EndsWith(q_clean, "?") THEN q_clean ELSE q_clean \o "?"

\* "q_clean = re.sub(r"\s+", " ", q).strip()" and the append of "?"
CleanQuestion(q) == EnsureQuestionMark(Strip(CollapseSpaces(q)))

extract_question_lines(lines, full_text) ==
    Take(DedupLower(Filter(MapSeq(KiqItems(full_text) \o QuestionLines(lines)
                                      \o QuestionSentences(full_text),
                                  CleanQuestion),
                           LAMBDA q_clean : Len(q_clean) >= 8)),
         15)

-----------------------------------------------------------------------------
(* cbc_parser.py: extract_block_items and extract_learning_outcomes        *)

\* r"specific\s+learning\s+outcomes?\s*[:\-]?" read from position i
OutcomesHeading(low, i) ==
    Let(Spaces0(low,
            OptLit(low,
                Lit(low,
                    Spaces1(low, Lit(low, Spaces1(low, Lit(low, {i}, "specific")), "learning")),
                    "outcome"),
                "s")), LAMBDA sp :
        sp \cup AnyLit(low, sp, {":", "-"}))

\* r"key\s+inquiry\s+questions?|suggested\s+learning\s+experiences|
\*   core\s+competencies|values" read from position i
OutcomesStop(low, i) ==
    Lit(low, Spaces1(low, Lit(low, Spaces1(low, Lit(low, {i}, "key")), "inquiry")), "question")
    \cup Lit(low, Spaces1(low, Lit(low, Spaces1(low, Lit(low, {i}, "suggested")),
                                   "learning")), "experiences")
    \cup Lit(low, Spaces1(low, Lit(low, {i}, "core")), "competencies")
    \cup Lit(low, {i}, "values")

\* the loop of extract_block_items over the lines of block
BlockItems(block) ==
    Take(DedupLower(Filter(MapSeq(SplitOn(block, {"\n", "\r"}),
                                  LAMBDA raw : StripChars(CollapseSpaces(raw), {" ", "-", "@", "\t"})),
                           LAMBDA line :
                               /\ Len(line) >= 6
                               /\ ~AllChars(line, {"0", "1", "2", "3", "4", "5", "6", "7", "8", "9"})
                               /\ Lower(line) \notin {"strand", "substrand", "sub-strand", "sub strand"})),
         40)

\* block[: stop.start()] for the first match of the stop regex, if any
UpToStop(block) ==
    Let(Lower(block), LAMBDA low :
    Let({i \in 1..Len(block) : OutcomesStop(low, i) # {}}, LAMBDA stops :
        IF stops = {} THEN block ELSE SubSeq(block, 1, Min(stops) - 1)))

\* extract_block_items with the heading_regex and stop_regex that
\* extract_learning_outcomes passes
extract_block_items(text) ==
    Let(Lower(text), LAMBDA low :
    Let({i \in 1..Len(text) : OutcomesHeading(low, i) # {}}, LAMBDA heads :
        IF heads = {} THEN <<>>
        ELSE BlockItems(UpToStop(After(text, MatchEnd(OutcomesHeading(low, Min(heads))))))))

\* r"^(verb|verb|...)\b": the line starts with one of the verbs, as a word
StartsWithVerb(line, verbs) ==
    \E v \in verbs : StartsWith(line, v) /\ ~IsWordChar(Ch(line, Len(v) + 1))

\* the lookahead (?=\n\s*(?:Core competencies|Values|Key Inquiry|
\* Suggested Learning|Strand|Sub Strand|$)) at position t
ByEndLookahead(text, low, t) ==
    /\ Ch(text, t) = "\n"
    /\ \E p \in Spaces0(low, {t + 1}) :
           \/ AnyLit(low, {p}, {"core competencies", "values", "key inquiry",
                                "suggested learning", "strand", "sub strand"}) # {}
           \/ p = Len(text) + 1
           \/ p = Len(text) /\ Ch(text, p) = "\n"

\* "By\s+the\s+end[^\n:]{0,120}:" read from position i: the position after
\* the colon, 0 when there is no match
ByEndHeading(text, low, i) ==
    Let(MatchEnd(Lit(low, Spaces1(low, Lit(low, Spaces1(low, Lit(low, {i}, "by")), "the")), "end")),
        LAMBDA p :
    Let({c \in p..Len(text) : Ch(text, c) \in {":", "\n"}}, LAMBDA stop :
        IF p # 0 /\ stop # {} /\ Ch(text, Min(stop)) = ":" /\ Min(stop) - p <= 120
        THEN Min(stop) + 1 ELSE 0))

\* the first position after g where the lookahead holds, 0 when there is none
ByEndStop(text, low, g) ==
    Let({t \in (g + 1)..Len(text) : ByEndLookahead(text, low, t)}, LAMBDA T :
        IF T = {} THEN 0 ELSE Min(T))

\* r"By\s+the\s+end[^\n:]{0,120}:\s*(.+?)(?=...)" matched at i: group 1 as
\* [from, to), to = 0 when there is no match at i.  \s* gives white space
\* back to the group, one character at a time, until the lookahead is found.
ByEndGroup(text, low, i) ==
    Let(ByEndHeading(text, low, i), LAMBDA colon :
    Let(IF colon = 0 THEN {}
        ELSE {g \in Spaces0(low, {colon}) : ByEndStop(text, low, g) # 0}, LAMBDA good :
        IF good = {} THEN [from |-> 0, to |-> 0]
        ELSE [from |-> Max(good), to |-> ByEndStop(text, low, Max(good))]))

\* re.findall of that pattern
RECURSIVE ByEndBlocks(_, _, _)
ByEndBlocks(text, low, from) ==
    Let({i \in from..Len(text) :
            StartsAt(low, i, "by") /\ ByEndGroup(text, low, i).to # 0}, LAMBDA starts :
        IF starts = {} THEN <<>>
        ELSE Let(ByEndGroup(text, low, Min(starts)), LAMBDA m :
                 <<SubSeq(text, m.from, m.to - 1)>> \o ByEndBlocks(text, low, m.to)))

\* r"\n|\r|\d+\.\s+|[@\-]\s+" matched at position i of block: its end or 0
PieceSeparator(block, i) ==
    IF Ch(block, i) \in {"\n", "\r"} THEN i + 1
    ELSE MatchEnd(Spaces1(block, Lit(block, Digits1(block, {i}), "."))
                  \cup Spaces1(block, AnyLit(block, {i}, {"@", "-"})))

OutcomeVerbsAnyCase ==
    {"identify", "explain", "describe", "demonstrate", "apply", "discuss", "use",
     "analyse", "analyze", "construct", "create", "differentiate", "outline",
     "state", "classify", "compare"}

OutcomeVerbs ==
    {"Identify", "Explain", "Describe", "Demonstrate", "Apply", "Discuss", "Use",
     "Analyse", "Analyze", "Construct", "Create", "Differentiate"}

\* the outcomes captured from the "By the end ..." blocks
ByEndCaptured(text) ==
    Filter(MapSeq(Flatten(MapSeq(ByEndBlocks(text, Lower(text), 1),
                                 LAMBDA block :
                                     SplitFrom(block,
                                               [i \in 1..Len(block) |-> PieceSeparator(block, i)],
                                               1))),
                  LAMBDA part : StripChars(CollapseSpaces(part), {" ", ".", ":", "-"})),
           LAMBDA line :
               /\ Len(line) >= 10
               /\ Len(line) <= 220
               /\ ~ContainsAny(Lower(line), {"suggested learning", "core competencies", "key inquiry"})
               /\ StartsWithVerb(Lower(line), OutcomeVerbsAnyCase))

\* re.sub(r"^\d+\.\s*", "", line)
DropNumbering(line) ==
    Let(Spaces0(line, Lit(line, Digits1(line, {1}), ".")), LAMBDA P :
        IF P = {} THEN line ELSE After(line, Max(P)))

\* the fallback: lines that start with a capitalised action verb
VerbLines(lines) ==
    Filter(MapSeq(lines, LAMBDA line : Strip(DropNumbering(line))),
           LAMBDA line :
               /\ Len(line) >= 20
               /\ Len(line) <= 220
               /\ ~ContainsAny(Lower(line), {"table of contents", "summary of strands",
                                             "lesson allocation", "general learning outcomes"})
               /\ StartsWithVerb(line, OutcomeVerbs))

\* the three tiers run one after the other, each adding to the result
extract_learning_outcomes_all_tiers(text, lines) ==
    extract_block_items(text)
        \o Take(DedupLower(ByEndCaptured(text)), 30)
        \o Take(DedupLower(VerbLines(lines)), 30)

extract_learning_outcomes(text, lines) ==
    Let(extract_block_items(text), LAMBDA from_heading :
        IF from_heading # <<>> THEN from_heading
        ELSE Let(ByEndCaptured(text), LAMBDA captured :
                 IF captured # <<>> THEN Take(DedupLower(captured), 30)
                 ELSE Take(DedupLower(VerbLines(lines)), 30)))

-----------------------------------------------------------------------------
(* cbc_parser.py: extract_competencies and extract_values                  *)

\* re.search(label + r"s?\s*:", line, re.IGNORECASE)
HasLabel(low, label) ==
    \E i \in 1..Len(low) : Lit(low, Spaces0(low, OptLit(low, Lit(low, {i}, label), "s")), ":") # {}

\* re.split(r":", line, maxsplit=1)[-1].strip()
AfterFirstColon(line) ==
    Strip(After(line, Min({i \in 1..Len(line) : Ch(line, i) = ":"}) + 1))

\* the loop shared by extract_competencies and extract_values: a labelled
\* line gives what follows its first colon (nothing when that is blank),
\* another line is kept whole when it holds a keyword
LabelledOrKeyword(lines, label, keywords) ==
    Filter(MapSeq(lines, LAMBDA line :
                      IF HasLabel(Lower(line), label) THEN AfterFirstColon(line)
                      ELSE IF ContainsAny(Lower(line), keywords) THEN line
                      ELSE ""),
           LAMBDA value : value # "")

extract_competencies(lines) ==
    Take(DedupLower(LabelledOrKeyword(lines, "core competencie",
            {"critical thinking", "communication and collaboration", "digital literacy",
             "self-efficacy", "learning to learn", "citizenship", "creativity"})),
         20)

extract_values(lines) ==
    Take(DedupLower(LabelledOrKeyword(lines, "value",
            {"respect", "integrity", "unity", "responsibility", "honesty",
             "perseverance", "patriotism"})),
         20)

-----------------------------------------------------------------------------
(* cbc_parser.py: extract_suggested_learning_experiences                   *)

\* sle_pattern up to group 1, read from position i of the lower-cased text
SleHeading(low, i) ==
    Let(Spaces0(low,
            OptLit(low,
                Lit(low,
                    Spaces1(low, Lit(low, Spaces1(low, Lit(low, {i}, "suggested")) \cup {i},
                                     "learning")),
                    "experience"),
                "s")), LAMBDA sp :
        Spaces0(low, sp \cup AnyLit(low, sp, {":", "-"})))

\* the lookahead (?=\n(?:Key\s+Inquiry|Core\s+Competencies|Values|Assessment|
\* Specific\s+Learning|Strand|$)) at position t
SleLookahead(text, low, t) ==
    /\ Ch(text, t) = "\n"
    /\ \/ Lit(low, Spaces1(low, Lit(low, {t + 1}, "key")), "inquiry") # {}
       \/ Lit(low, Spaces1(low, Lit(low, {t + 1}, "core")), "competencies") # {}
       \/ Lit(low, Spaces1(low, Lit(low, {t + 1}, "specific")), "learning") # {}
       \/ AnyLit(low, {t + 1}, {"values", "assessment", "strand"}) # {}
       \/ t = Len(text)
       \/ t + 1 = Len(text) /\ Ch(text, t + 1) = "\n"

\* group 1 of sle_pattern matched at i with the heading read greedily, as
\* [from, to), to = 0 when that fails.  When it fails the pattern can still
\* match with a group made only of what the heading gave back (white space,
\* a colon or dash, a final s); such a group yields no experience and ends
\* before the next heading, so it is left out.
SleGroup(text, low, i) ==
    Let(MatchEnd(SleHeading(low, i)), LAMBDA g :
    Let(IF g = 0 THEN {} ELSE {t \in g..Len(text) : SleLookahead(text, low, t)}, LAMBDA T :
        IF T # {} /\ ~HasQuestionMark(text, g, Min(T) - 1)
        THEN [from |-> g, to |-> Min(T)]
        ELSE [from |-> 0, to |-> 0]))

RECURSIVE SleBlocks(_, _, _)
SleBlocks(text, low, from) ==
    Let({i \in from..Len(text) :
            /\ StartsAt(low, i, "suggested") \/ StartsAt(low, i, "learning")
            /\ SleGroup(text, low, i).to # 0}, LAMBDA starts :
        IF starts = {} THEN <<>>
        ELSE Let(SleGroup(text, low, Min(starts)), LAMBDA m :
                 <<SubSeq(text, m.from, m.to - 1)>> \o SleBlocks(text, low, m.to)))

\* r"\n\s*[@\-\*]\s+|\n\s*\d+\)[:\s]+|\n(?=[A-Z])" matched at position i: its
\* end or 0
ItemSeparator(block, i) ==
    Let(Spaces0(block, {i + 1}), LAMBDA sp :
    Let(MatchEnd(Spaces1(block, AnyLit(block, sp, {"@", "-", "*"}))), LAMBDA bullet :
    Let(MatchEnd(Run1(block, Lit(block, Digits1(block, sp), ")"), {":", " ", "\n", "\t", "\r"})),
        LAMBDA numbered :
        IF Ch(block, i) # "\n" THEN 0
        ELSE IF bullet # 0 THEN bullet
        ELSE IF numbered # 0 THEN numbered
        ELSE IF IsUpper(Ch(block, i + 1)) THEN i + 1
        ELSE 0)))

\* re.sub(r"^\d+\.\d+\.?\d*\s*", "", item)
DropSectionNumber(item) ==
    Let(Spaces0(item, Digits0(item,
            OptLit(item, Digits1(item, Lit(item, Digits1(item, {1}), ".")), "."))), LAMBDA P :
        IF P = {} THEN item ELSE After(item, Max(P)))

\* re.sub(r"^\(\d+\s+lessons?\)\s*", "", item)
DropLessonCount(item) ==
    Let(Spaces0(item,
            Lit(item,
                OptLit(item, Lit(item, Spaces1(item, Digits1(item, Lit(item, {1}, "("))), "lesson"),
                       "s"),
                ")")), LAMBDA P :
        IF P = {} THEN item ELSE After(item, Max(P)))

\* re.sub(r"^@\s*", "", item)
DropBullet(item) ==
    Let(Spaces0(item, Lit(item, {1}, "@")), LAMBDA P :
        IF P = {} THEN item ELSE After(item, Max(P)))

ExperienceLength(s) == 15 <= Len(s) /\ Len(s) <= 300

\* Pattern 1: the items of the explicit "Suggested Learning Experiences" sections
SleItems(text) ==
    Filter(MapSeq(Flatten(MapSeq(SleBlocks(text, Lower(text), 1),
                                 LAMBDA block :
                                     SplitFrom(block,
                                               [i \in 1..Len(block) |-> ItemSeparator(block, i)],
                                               1))),
                  LAMBDA item :
                      DropBullet(DropLessonCount(DropSectionNumber(Strip(CollapseSpaces(item)))))),
           LAMBDA item :
               /\ ExperienceLength(item)
               /\ ContainsAny(Lower(item),
                      {"learner", "listen", "read", "write", "discuss", "present", "create",
                       "practice", "observe", "identify", "demonstrate", "group", "pair", "engage"}))

\* Pattern 2: the lines that hold an activity phrase and no metadata word
ActivityLines(text) ==
    Filter(MapSeq(SplitLines(text), Strip), LAMBDA line :
        /\ ExperienceLength(line)
        /\ ContainsAny(Lower(line),
               {"the learner", "learners", "listen to", "read", "write", "discuss",
                "group activity", "pair work", "engage", "observe", "reflect", "role play"})
        /\ ~ContainsAny(Lower(line),
               {"strand", "page", "assessment", "rubric", "grade", "subject", "table"}))

\* the start of the line that holds position b
LineStart(text, b) == Max({1} \cup {i + 1 : i \in {j \in 1..(b - 1) : Ch(text, j) = "\n"}})

\* [^?\n]{15,300} read from position p: its end, 0 when fewer than 15
\* characters match
ActivityRun(text, p) ==
    Let(Min({Len(text) + 1} \cup {i \in p..Len(text) : Ch(text, i) \in {"?", "\n"}}), LAMBDA e :
        IF e - p < 15 THEN 0 ELSE IF e - p > 300 THEN p + 300 ELSE e)

\* activity_pattern matched with its bullet at position b: group 1 as
\* [from, to), to = 0 when there is no match
BulletGroup(text, b) ==
    Let(IF /\ Ch(text, b) \in {"@", "-", "*"}
           /\ \A i \in LineStart(text, b)..(b - 1) : IsSpace(Ch(text, i))
        THEN MatchEnd(Spaces1(text, {b + 1})) ELSE 0, LAMBDA capital :
        IF capital # 0 /\ IsUpper(Ch(text, capital)) /\ ActivityRun(text, capital + 1) # 0
        THEN [from |-> capital, to |-> ActivityRun(text, capital + 1)]
        ELSE [from |-> 0, to |-> 0])

\* Pattern 3: r"(?:^|\n)\s*[@\-\*]\s+([A-Z][^?\n]{15,300})" with re.MULTILINE:
\* a bullet that is the first thing on its line, white space, then a capital
\* letter followed by 15 to 300 characters of the same line free of "?"
BulletItems(text) ==
    MapSeq(Filter(SubseqAt([b \in 1..Len(text) |->
                               SubSeq(text, BulletGroup(text, b).from, BulletGroup(text, b).to - 1)],
                           {b \in 1..Len(text) : BulletGroup(text, b).to # 0}),
                  LAMBDA match :
                      ContainsAny(Lower(match), {"listen", "read", "write", "discuss", "practice",
                                                 "observe", "identify", "learner"})),
           Strip)

\* key = exp.lower()[:80]
ExperienceKey(exp) == SubSeq(Lower(exp), 1, IF Len(exp) < 80 THEN Len(exp) ELSE 80)

extract_suggested_learning_experiences(text) ==
    Take(DedupBy(Filter(MapSeq(SleItems(text) \o ActivityLines(text) \o BulletItems(text),
                               CleanLine),
                        LAMBDA exp : Len(exp) >= 15),
                 ExperienceKey),
         15)

-----------------------------------------------------------------------------
(* cbc_parser.py: is_relevant_page, extract_relevant_pages and parse_pdf   *)

\* a page whose get_text() raises
UNREADABLE == "<get_text raises>"

\* page_text.count("\n")
CountNewlines(s) == Cardinality({i \in 1..Len(s) : Ch(s, i) = "\n"})

curriculum_keywords ==
    {"strand", "sub strand", "substrand", "learning outcome", "key inquiry",
     "core competency", "value", "suggested learning", "assessment",
     "specific learning outcome", "competencies"}

is_relevant_page(page_text) ==
    Let(Lower(page_text), LAMBDA text_lower :
        /\ ~ContainsAny(text_lower, {"table of contents", "contents", "acknowledgements",
                                     "introduction", "disclaimer"})
        /\ Len(Strip(page_text)) >= 100
        /\ CountNewlines(page_text) >= 3
        /\ ContainsAny(text_lower, curriculum_keywords))

\* range(11, len(doc)): the index of the first page that is scanned
FirstContentIndex == 11

\* the body of the loop of extract_relevant_pages with the test that
\* is_relevant_page would make
KeepPageIfRelevant(page) == page # UNREADABLE /\ is_relevant_page(normalize_text(page))

\* the body of the loop of extract_relevant_pages: a page whose get_text()
\* raises is skipped, another page is kept when its normalized text is not blank
KeepPage(page) == page # UNREADABLE /\ Strip(normalize_text(page)) # ""

\* the loop of extract_relevant_pages from index idx (0-based) on
RECURSIVE RelevantFrom(_, _)
RelevantFrom(pages, idx) ==
    IF idx >= Len(pages) THEN <<>>
    ELSE (IF KeepPage(pages[idx + 1]) THEN <<normalize_text(pages[idx + 1])>> ELSE <<>>)
             \o RelevantFrom(pages, idx + 1)

extract_relevant_pages(pages) == RelevantFrom(pages, FirstContentIndex)

\* "if not relevant_pages: relevant_pages = [...]" left out
NoFallback(pages, relevant) == relevant

\* "if not relevant_pages: relevant_pages = [normalize_text(page.get_text())
\* for page in doc]"
Fallback(pages, relevant) ==
    IF relevant # <<>> THEN relevant
    ELSE [k \in 1..Len(pages) |-> normalize_text(pages[k])]

\* parse_pdf from full_text on: the record it returns, with what led to it
ParsedRecord(stem, filtered, relevant_pages, full_text) ==
    Let(clean_lines(full_text), LAMBDA lines :
    Let(parse_subject_grade(stem), LAMBDA named :
    Let(extract_strand_substrand(lines), LAMBDA strands :
        [raised |-> FALSE,
         filtered |-> filtered,
         relevant_pages |-> relevant_pages,
         full_text |-> full_text,
         subject |-> named.subject,
         grade |-> named.grade,
         strand |-> strands.strand,
         substrand |-> strands.substrand,
         learning_outcomes |-> extract_learning_outcomes(full_text, lines),
         key_inquiry_questions |-> extract_question_lines(lines, full_text),
         core_competencies |-> extract_competencies(lines),
         values |-> extract_values(lines),
         suggested_learning_experiences |-> extract_suggested_learning_experiences(full_text),
         source_file |-> stem])))

\* parse_pdf on the PDF named stem with the given pages.  raised: get_text()
\* raised outside extract_relevant_pages, so that parse_pdf raised; filtered:
\* what extract_relevant_pages returned; relevant_pages, full_text and the
\* fields of the record are as in the code.
parse_pdf(stem, pages) ==
    Let(extract_relevant_pages(pages), LAMBDA filtered :
        IF filtered = <<>> /\ \E k \in 1..Len(pages) : pages[k] = UNREADABLE
        THEN [raised |-> TRUE, filtered |-> filtered]
        ELSE Let(Fallback(pages, filtered), LAMBDA relevant_pages :
                 ParsedRecord(stem, filtered, relevant_pages,
                              normalize_text(Join(relevant_pages, "\n")))))

-----------------------------------------------------------------------------
(* parse_pdf at work: on a one-page PDF whose text is put together line by *)
(* line, and on PDFs put together page by page                             *)

PdfStem == "Mathematics_Grade_7"

NotParsed == [raised |-> FALSE, filtered |-> <<>>, source_file |-> ""]

LinePool ==
    {"Specific Learning Outcomes:",
     "By the end of the lesson, the learner should be able to:",
     "Key Inquiry Questions",
     "Is this so??",
     "What is a fraction? Explain",
     "Suggested Learning Experiences:",
     "- Learners discuss respect and creativity in groups",
     "Values: Unity"}

\* a line that every extractor takes up, different for every n
NumberedLine(n) ==
    "Use unity? read creativity "
        \o <<"0", "1", "2", "3", "4", "5", "6", "7", "8", "9">>[(n \div 10) + 1]
        \o <<"0", "1", "2", "3", "4", "5", "6", "7", "8", "9">>[(n % 10) + 1]

\* the numbered lines 1..n
NumberedLines(n) == Concat([k \in 1..n |-> NumberedLine(k) \o "\n"])

MaxLines == 2

MaxNumbered == 31

\* how many numbered lines a page can get: around the caps of the extractors
NumberedCounts == {MaxNumbered - 16, MaxNumbered - 11, MaxNumbered - 1, MaxNumbered}

PagePool ==
    {"Strand: Numbers\nSub-strand: Whole numbers\nSpecific Learning Outcomes:\nIdentify numbers up to one hundred in words\nKey Inquiry Questions\nWhat is a number?",
     "Notes for the teacher\nThe teacher prepares the classroom before the lesson begins\nThe teacher greets everyone warmly\nMaterials are put away",
     "Strand: Numbers",
     "Table of Contents\nStrand 1.0 Numbers ........ 12\nStrand 2.0 Measurement ........ 20\nStrand 3.0 Geometry ........ 31\nAssessment ........ 40",
     " \n\n\n\n ",
     UNREADABLE}

\* how many pages a PDF has beyond the first FirstContentIndex
MaxTail == 2

\* a one-page PDF with an empty page
TextInit == doc = <<"">> /\ nlines = 0 /\ bulk = 0 /\ parsed = NotParsed

\* no PDF yet
PagesInit == doc = <<>> /\ nlines = 0 /\ bulk = 0 /\ parsed = NotParsed

AppendLine(line) ==
    /\ parsed = NotParsed
    /\ bulk = 0
    /\ nlines < MaxLines
    /\ doc' = <<doc[1] \o line \o "\n">>
    /\ nlines' = nlines + 1
    /\ UNCHANGED <<bulk, parsed>>

AppendNumberedLines(n) ==
    /\ parsed = NotParsed
    /\ nlines <= 1
    /\ bulk = 0
    /\ doc' = <<doc[1] \o NumberedLines(n)>>
    /\ bulk' = n
    /\ UNCHANGED <<nlines, parsed>>

\* the pages before FirstContentIndex are copies of one page
AppendPage(page) ==
    /\ parsed = NotParsed
    /\ Len(doc) < FirstContentIndex + MaxTail
    /\ Len(doc) \in 1..(FirstContentIndex - 1) => page = doc[1]
    /\ doc' = Append(doc, page)
    /\ UNCHANGED <<nlines, bulk, parsed>>

\* the lines of a page with labelled fields
FieldLinePool ==
    {"Strand: Numbers",
     "Sub-strand: Fractions",
     "Key Inquiry Questions: What is a fraction",
     "Key Inquiry Questions: Why do we share?",
     "Suggested Learning Experiences: Learners are guided to discuss fractions in groups"}

\* how many of them a page holds at most
MaxFieldLines == 3

AppendFieldLine(line) ==
    /\ parsed = NotParsed
    /\ nlines < MaxFieldLines
    /\ doc' = <<doc[1] \o line \o "\n">>
    /\ nlines' = nlines + 1
    /\ UNCHANGED <<bulk, parsed>>

ParsePdf ==
    /\ parsed = NotParsed
    /\ doc # <<>>
    /\ parsed' = parse_pdf(PdfStem, doc)
    /\ UNCHANGED <<doc, nlines, bulk>>

-----------------------------------------------------------------------------
(* lesson_generator.py: _classify_competency_items                         *)

\* ^links?\s+to\s+(other\s+)?  : the positions after the optional "other "
LinkToOther(lowered) ==
    LET p1 == Spaces1(lowered, Lit(lowered, Spaces1(lowered,
                  OptLit(lowered, Lit(lowered, {1}, "link"), "s")), "to"))
    IN  p1 \cup Spaces1(lowered, Lit(lowered, p1, "other"))

\* re.match(r'^links?\s+to\s+(other\s+)?(subject|learning)', lowered)
MatchLinkPrefix(lowered) ==
    LET p == LinkToOther(lowered)
    IN  (Lit(lowered, p, "subject") \cup Lit(lowered, p, "learning")) # {}

\* re.sub(r'^links?\s+to\s+(?:other\s+)?(?:subjects?|learning\s+areas?)\s*:?\s*', '', text)
\* every quantifier is greedy and none of them gives a character back, so the
\* match is the longest one
SubLinkPrefix(text) ==
    LET lowered == Lower(text)
        p == LinkToOther(lowered)
        q == OptLit(lowered, Lit(lowered, p, "subject"), "s")
             \cup OptLit(lowered,
                    Lit(lowered, Spaces1(lowered, Lit(lowered, p, "learning")), "area"), "s")
        r == Spaces0(lowered, OptLit(lowered, Spaces0(lowered, q), ":"))
    IN  IF r = {} THEN text ELSE After(text, Max(r))

\* ^pertinent\s+(and\s+)?contemporary\s+issues
PertinentIssues(lowered) ==
    LET p1 == Spaces1(lowered, Lit(lowered, {1}, "pertinent"))
        p2 == p1 \cup Spaces1(lowered, Lit(lowered, p1, "and"))
    IN  Lit(lowered, Spaces1(lowered, Lit(lowered, p2, "contemporary")), "issues")

MatchPciPrefix(lowered) == PertinentIssues(lowered) # {} \/ StartsWith(lowered, "pci")

\* re.sub(r'^pertinent\s+(?:and\s+)?contemporary\s+issues\s*(?:\(?pcis?\)?)?\s*:?\s*', '', text)
SubPciPrefix(text) ==
    LET lowered == Lower(text)
        p == Spaces0(lowered, PertinentIssues(lowered))
        q == p \cup OptLit(lowered,
                      OptLit(lowered, Lit(lowered, OptLit(lowered, p, "("), "pci"), "s"), ")")
        r == Spaces0(lowered, OptLit(lowered, Spaces0(lowered, q), ":"))
    IN  IF r = {} THEN text ELSE After(text, Max(r))

\* ^values?\s*:?
ValuesLabel(lowered) ==
    OptLit(lowered, Spaces0(lowered, OptLit(lowered, Lit(lowered, {1}, "value"), "s")), ":")

\* re.match(r'^values?\s*:?\s+', lowered)
MatchValuesPrefix(lowered) == Spaces1(lowered, ValuesLabel(lowered)) # {}

\* re.sub(r'^values?\s*:?\s*', '', text)
SubValuesPrefix(text) ==
    LET lowered == Lower(text)
        r == Spaces0(lowered, ValuesLabel(lowered))
    IN  IF r = {} THEN text ELSE After(text, Max(r))

value_keywords ==
    {"respect", "responsibility", "unity", "love", "patriotism", "integrity", "peace",
     "social justice", "humility", "cooperation", "self-esteem", "self-confidence",
     "sharing", "caring"}

subject_names ==
    {"kiswahili", "french", "german", "arabic", "indigenous languages", "english",
     "mathematics", "integrated science", "social studies", "pre-technical",
     "pre technical", "creative arts", "agriculture", "nutrition", "cre", "ire", "hre"}

teach_words ==
    {"teach", "learnt", "learn", "relate", "use ", "used in", "apply", "language", "skills"}

\* the value-keyword test made on the text as written instead of lowered
HasValueKeywordCaseSensitive(text, lowered) == \E vk \in value_keywords : Contains(text, vk)

HasValueKeyword(text, lowered) == \E vk \in value_keywords : Contains(lowered, vk)

\* a loop body that tests the value keywords before anything else and knows
\* no other rule
ClassifyItemValueKeywordFirst(item) ==
    LET text == Strip(item)
        lowered == Lower(text)
    IN  IF item = "" \/ Len(text) < 4 THEN [list |-> "none", text |-> ""]
        ELSE IF HasValueKeyword(text, lowered) /\ Len(text) < 200
            THEN [list |-> "values", text |-> text]
        ELSE [list |-> "competencies", text |-> text]

\* the loop body without its last rule: what no rule claims is appended nowhere
ClassifyItemNoCatchAll(item) ==
    LET text == Strip(item)
        lowered == Lower(text)
    IN  IF item = "" \/ Len(text) < 4 THEN [list |-> "none", text |-> ""]
        ELSE IF HasValueKeyword(text, lowered) /\ Len(text) < 200
            THEN [list |-> "values", text |-> text]
        ELSE [list |-> "none", text |-> ""]

\* one pass of the loop body: the list the item is appended to ("none" when
\* the item is skipped) and the string appended
ClassifyItem(item) ==
    LET text == Strip(item)
        lowered == Lower(text)
        Put(list, out) == [list |-> IF out = "" THEN "none" ELSE list, text |-> out]
    IN  IF item = "" \/ Len(text) < 4 THEN [list |-> "none", text |-> ""]
        ELSE IF MatchLinkPrefix(lowered) THEN Put("links", Strip(SubLinkPrefix(text)))
        ELSE IF Contains(lowered, "link to other") \/ Contains(lowered, "links to other")
            THEN Put("links", text)
        ELSE IF MatchPciPrefix(lowered) THEN Put("pcis", Strip(SubPciPrefix(text)))
        ELSE IF MatchValuesPrefix(lowered) THEN Put("values", Strip(SubValuesPrefix(text)))
        ELSE IF HasValueKeyword(text, lowered) /\ Len(text) < 200 THEN Put("values", text)
        ELSE IF /\ Len(text) < 80
                /\ \E sn \in subject_names : Contains(lowered, sn)
                /\ ((\E tw \in teach_words : Contains(lowered, tw)) \/ Len(text) < 30)
            THEN Put("links", text)
        ELSE Put("competencies", text)

\* what the loop appended to one of the four lists, deduplicated
ClassifiedList(input, list) ==
    LET placed == [i \in 1..Len(input) |-> ClassifyItem(input[i])]
        mine == {i \in 1..Len(input) : placed[i].list = list}
    IN  DedupExact([k \in 1..Cardinality(mine) |-> SubseqAt(placed, mine)[k].text])

classify_competency_items(input) ==
    [competencies |-> ClassifiedList(input, "competencies"),
     values |-> ClassifiedList(input, "values"),
     links |-> ClassifiedList(input, "links"),
     pcis |-> ClassifiedList(input, "pcis")]

ItemPool ==
    {"Respect for others",
     "respect for others",
     "RESPECT FOR OTHERS",
     "Critical thinking and problem solving",
     "Kiswahili",
     "Link to other subjects: Kiswahili",
     "Values: Kiswahili",
     "Link to other subjects: Respect for others",
     "Pertinent and Contemporary Issues (PCIs): critical thinking and problem solving",
     "PCIs: road safety",
     "pci",
     ""}

\* items classified on their own, one for a rule the pool above leaves out
RuleItemPool ==
    {"Creativity and imagination",
     "Critical thinking",
     "Mathematics in everyday measurement",
     "Respect: see the link to other subjects",
     "Skills learnt in English lessons",
     "Mathematics",
     "Link to other subjects:",
     "Values: "}

\* the input of the classifier scenario
ScenarioItems ==
    <<"Respect for others", "Link to other subjects: Kiswahili",
      "Critical thinking and problem solving">>

MaxItems == 2

NotClassified == [competencies |-> <<"?">>, values |-> <<"?">>, links |-> <<"?">>, pcis |-> <<"?">>]

ClassifyIdle == items = <<>> /\ classified = NotClassified /\ reclassified = NotClassified

ClassifyInit ==
    /\ items \in UNION {[1..n -> ItemPool] : n \in 0..MaxItems}
                    \cup {<<item>> : item \in RuleItemPool} \cup {ScenarioItems}
    /\ classified = NotClassified
    /\ reclassified = NotClassified

\* a call that empties the list it was given while it reads it
ClassifyConsumingItems ==
    /\ classified = NotClassified
    /\ classified' = classify_competency_items(items)
    /\ items' = <<>>
    /\ UNCHANGED reclassified

\* a call of _classify_competency_items: "for item in items" only reads the
\* list, and the function keeps nothing outside its local lists
Classify ==
    /\ classified = NotClassified
    /\ classified' = classify_competency_items(items)
    /\ UNCHANGED <<items, reclassified>>

\* a second call with the same list object
ClassifyAgain ==
    /\ classified # NotClassified
    /\ reclassified = NotClassified
    /\ reclassified' = classify_competency_items(items)
    /\ UNCHANGED <<items, classified>>

-----------------------------------------------------------------------------
(* cbc_parser_new.py: the parser that reads the tables of a PDF            *)

\* range(11, min(len(pdf.pages), 60)): the pages whose tables are read
FirstTablePage == 11

TablePageLimit == 60

\* "if not header", "if not text", any(row_dict.values()): a cell is a string
\* or None
Truthy(cell) == cell # NULL /\ cell # ""

\* the mappings of normalize_header, in the order of the dict
mappings ==
    << [canonical |-> "strand", variants |-> {"strand", "strands"}],
       [canonical |-> "substrand",
        variants |-> {"sub-strand", "sub strand", "substrand", "sub-strands"}],
       [canonical |-> "learning_outcomes",
        variants |-> {"specific learning outcomes", "learning outcomes", "slo", "outcomes"}],
       [canonical |-> "key_inquiry",
        variants |-> {"key inquiry questions", "inquiry questions", "kiq", "key inquiry"}],
       [canonical |-> "learning_experiences",
        variants |-> {"suggested learning experiences", "learning experiences", "sle"}],
       [canonical |-> "competencies", variants |-> {"core competencies", "competencies"}],
       [canonical |-> "values", variants |-> {"values", "national values"}] >>

normalize_header(header) ==
    IF ~Truthy(header) THEN ""
    ELSE Let(Lower(Strip(header)), LAMBDA h :
         Let({k \in 1..Len(mappings) : ContainsAny(h, mappings[k].variants)}, LAMBDA hit :
             IF hit = {} THEN h ELSE mappings[Min(hit)].canonical))

\* row_dict of one row: under every normalized header the cell of the last
\* column that has it
RowDict(headers, row) ==
    Let([i \in 1..Min({Len(headers), Len(row)}) |-> normalize_header(headers[i])],
        LAMBDA keys :
            [key \in {keys[i] : i \in DOMAIN keys} |->
                row[Max({i \in DOMAIN keys : keys[i] = key})]])

\* row_dict.get(key, '')
Get(row_dict, key) == IF key \in DOMAIN row_dict THEN row_dict[key] ELSE ""

\* the row dicts of one table: the first row holds the headers, a row whose
\* cells are all empty is skipped
TableRows(table) ==
    IF Len(table) > 1
    THEN Filter(MapSeq(Tail(table), LAMBDA row : RowDict(Head(table), row)),
                LAMBDA row_dict : \E key \in DOMAIN row_dict : Truthy(row_dict[key]))
    ELSE <<>>

\* the loop over the pages from index idx (0-based) on; extract_tables()
\* raising on a page ends the loop, and what was collected before is kept
RECURSIVE TablesFrom(_, _)
TablesFrom(pages, idx) ==
    IF idx >= Min({Len(pages), TablePageLimit}) THEN <<>>
    ELSE IF pages[idx + 1].damaged THEN <<>>
    ELSE Flatten(MapSeq(pages[idx + 1].tables, TableRows)) \o TablesFrom(pages, idx + 1)

\* pdfplumber.open raising is caught as well: no rows
extract_tables_from_pdf(pdf) ==
    IF pdf.corrupt THEN <<>> ELSE TablesFrom(pdf.pages, FirstTablePage)

clean_text(text) ==
    IF ~Truthy(text) THEN ""
    ELSE ReplaceAll(CollapseSpaces(Strip(text)), "\n", " ")

\* r'[,;]\s*|\n\s*[^~%\-]\s*' matched at position i of text: its end or 0.
\* The three characters before "\-" are the mis-encoded bullet of the source:
\* ^ a-circumflex, ~ euro sign, % cent sign.
FieldSeparator(text, i) ==
    IF Ch(text, i) \in {",", ";"} THEN MatchEnd(Spaces0(text, {i + 1}))
    ELSE MatchEnd(Spaces0(text,
             AnyLit(text, Spaces0(text, Lit(text, {i}, "\n")), {"^", "~", "%", "-"})))

split_field(text) ==
    IF ~Truthy(text) THEN <<>>
    ELSE Let(Strip(text), LAMBDA stripped :
         Take(Filter(MapSeq(SplitFrom(stripped,
                                      [i \in 1..Len(stripped) |-> FieldSeparator(stripped, i)],
                                      1),
                            clean_text),
                     LAMBDA item : Len(item) > 5),
              15))

parse_table_row(row_dict) ==
    [strand |-> clean_text(Get(row_dict, "strand")),
     substrand |-> clean_text(Get(row_dict, "substrand")),
     learning_outcomes |-> split_field(Get(row_dict, "learning_outcomes")),
     key_inquiry_questions |-> split_field(Get(row_dict, "key_inquiry")),
     suggested_learning_experiences |-> split_field(Get(row_dict, "learning_experiences")),
     core_competencies |-> split_field(Get(row_dict, "competencies")),
     values |-> split_field(Get(row_dict, "values"))]

\* (\d+|[A-Z]P) with re.IGNORECASE at position p of name: the group, "" when
\* there is no match
GradeToken(name, p) ==
    IF IsDigit(Ch(name, p))
    THEN SubSeq(name, p, RunEnd(name, p, {"0", "1", "2", "3", "4", "5", "6", "7", "8", "9"}) - 1)
    ELSE IF IsLetter(Ch(name, p)) /\ Ch(name, p + 1) \in {"P", "p"}
    THEN SubSeq(name, p, p + 1)
    ELSE ""

\* Grade[_\s]?(\d+|[A-Z]P) with re.IGNORECASE at position i of name: group 1,
\* "" when there is no match
GradeAt(name, low, i) ==
    IF ~StartsAt(low, i, "grade") THEN ""
    ELSE IF (Ch(name, i + 5) = "_" \/ IsSpace(Ch(name, i + 5)))
            /\ GradeToken(name, i + 6) # ""
    THEN GradeToken(name, i + 6)
    ELSE GradeToken(name, i + 5)

\* parse_subject_grade of cbc_parser_new.py, for a file name of one line
parse_subject_grade_new(filename) ==
    Let(ReplaceAll(filename, ".pdf", ""), LAMBDA name :
    Let(Lower(name), LAMBDA low :
    Let({i \in 1..Len(name) : GradeAt(name, low, i) # ""}, LAMBDA matches :
    Let({i \in 1..Len(name) : StartsAt(low, i, "grade")}, LAMBDA grades :
        [subject |-> Strip(StripChars(IF grades = {} THEN name
                                      ELSE SubSeq(name, 1, Min(grades) - 1),
                                      {"_"})),
         grade |-> IF matches = {} THEN "Unknown"
                   ELSE "Grade " \o GradeAt(name, low, Min(matches))]))))

\* "for item in parsed[field]: if item not in merged[field]: append", then
\* merged[field][:15]
MergedList(rows, field) ==
    Take(DedupExact(Flatten(MapSeq(rows, LAMBDA parsed_row : parsed_row[field]))), 15)

\* path.stem of a file *.pdf
Stem(name) == SubSeq(name, 1, Len(name) - 4)

\* parse_pdf of cbc_parser_new.py
parse_pdf_new(pdf) ==
    Let(parse_subject_grade_new(Stem(pdf.name)), LAMBDA named :
    Let(MapSeq(extract_tables_from_pdf(pdf), parse_table_row), LAMBDA rows :
        IF rows = <<>>
        THEN [subject |-> named.subject,
              grade |-> named.grade,
              strand |-> "",
              substrand |-> "",
              learning_outcomes |-> <<>>,
              key_inquiry_questions |-> <<>>,
              suggested_learning_experiences |-> <<>>,
              core_competencies |-> <<>>,
              values |-> <<>>]
        ELSE [subject |-> named.subject,
              grade |-> named.grade,
              strand |-> FirstNonEmpty(MapSeq(rows, LAMBDA parsed_row : parsed_row.strand)),
              substrand |-> FirstNonEmpty(MapSeq(rows, LAMBDA parsed_row : parsed_row.substrand)),
              learning_outcomes |-> MergedList(rows, "learning_outcomes"),
              key_inquiry_questions |-> MergedList(rows, "key_inquiry_questions"),
              suggested_learning_experiences |-> MergedList(rows, "suggested_learning_experiences"),
              core_competencies |-> MergedList(rows, "core_competencies"),
              values |-> MergedList(rows, "values")]))

-----------------------------------------------------------------------------
(* The batch runs: main of cbc_parser.py and main of cbc_parser_new.py over *)
(* the files of the directory "cbc pdfs"                                   *)

\* parse_pdf of cbc_parser.py on a file: opening a corrupt file raises, and
\* get_text() raises on a damaged page
PageTexts(pdf) ==
    [k \in 1..Len(pdf.pages) |->
        IF pdf.pages[k].damaged THEN UNREADABLE ELSE pdf.pages[k].text]

parse_pdf_file(pdf) ==
    IF pdf.corrupt THEN [raised |-> TRUE, filtered |-> <<>>]
    ELSE parse_pdf(Stem(pdf.name), PageTexts(pdf))

\* the dict parse_pdf of cbc_parser.py returns
ReturnedDict(result) ==
    [subject |-> result.subject,
     grade |-> result.grade,
     strand |-> result.strand,
     substrand |-> result.substrand,
     learning_outcomes |-> result.learning_outcomes,
     key_inquiry_questions |-> result.key_inquiry_questions,
     core_competencies |-> result.core_competencies,
     values |-> result.values,
     suggested_learning_experiences |-> result.suggested_learning_experiences,
     source_file |-> result.source_file]

\* parsed[stem] = data on a dict kept in insertion order
DictSet(dict, stem, data) ==
    IF \E k \in 1..Len(dict) : dict[k].stem = stem
    THEN [k \in 1..Len(dict) |->
            IF dict[k].stem = stem THEN [stem |-> stem, data |-> data] ELSE dict[k]]
    ELSE Append(dict, [stem |-> stem, data |-> data])

\* the pages of the files
FrontPage == [text |-> "Curriculum design", damaged |-> FALSE, tables |-> <<>>]

FrontMatter == [k \in 1..FirstTablePage |-> FrontPage]

DamagedPage == [text |-> "", damaged |-> TRUE, tables |-> <<>>]

TablePage(text, header, row) ==
    [text |-> text, damaged |-> FALSE, tables |-> << <<header, row>> >>]

\* the files the directory can hold, in the order of their names (the order
\* sorted() gives them)
FilePool ==
    << [name |-> "English_Grade_7.pdf", corrupt |-> TRUE, pages |-> <<>>],
       [name |-> "Kiswahili_Grade_7.pdf", corrupt |-> FALSE,
        pages |-> FrontMatter \o
            <<TablePage("Strand: Kusikiliza\nWhat is listening?",
                        <<"Strand", "Key Inquiry Questions">>,
                        <<"Kusikiliza na kuzungumza", "What is listening?; Why do we listen?">>),
              DamagedPage>>],
       [name |-> "Mathematics_Grade_7.pdf", corrupt |-> FALSE,
        pages |-> FrontMatter \o
            <<TablePage("Strand: Numbers\nSub-strand: Fractions\nWhat is a fraction?",
                        <<"Strand", "Sub Strand", "Specific Learning Outcomes", NULL>>,
                        <<"Numbers", "Fractions",
                          "identify fractions, compare fractions\n- order fractions", "12">>)>>],
       [name |-> "Mathematics_Grade_7_v2.pdf", corrupt |-> FALSE,
        pages |-> FrontMatter \o
            <<TablePage("Strand: Measurement\nHow long is a metre?",
                        <<"Strand", "Values">>,
                        <<"Measurement", "Unity; Respect for others">>)>>],
       [name |-> "Mathematics_Grade_8.pdf", corrupt |-> FALSE,
        pages |-> FrontMatter \o
            <<TablePage("Strand: Algebra\nWhat is a variable?",
                        <<"Strand", "Core Competencies">>,
                        <<"Algebra", "Critical thinking; Digital literacy">>)>>] >>

\* how many files the directory holds at most
MaxFiles == 3

Scripts == {"cbc_parser", "cbc_parser_new"}

NotWritten == [written |-> FALSE, records |-> <<>>]

\* sorted(PDF_DIR.glob("*.pdf")) for the directory that holds the files of
\* FilePool at the indices dir
sorted_glob(dir) == SubseqAt(FilePool, dir)

\* no batch run
BatchIdle ==
    /\ script = "none"
    /\ pdfs = <<>>
    /\ processed = 0
    /\ parsed_all = <<>>
    /\ out_file = NotWritten
    /\ aborted = FALSE
    /\ success_count = 0

\* one of the two scripts is started on a directory
BatchInit ==
    /\ script \in Scripts
    /\ \E dir \in {d \in SUBSET (1..Len(FilePool)) : Cardinality(d) <= MaxFiles} :
            pdfs = sorted_glob(dir)
    /\ processed = 0
    /\ parsed_all = <<>>
    /\ out_file = NotWritten
    /\ aborted = FALSE
    /\ success_count = 0

\* cbc_parser.main, one pass of "for pdf in pdfs": nothing catches what
\* parse_pdf raises, so the exception ends main
ParserMainLoop ==
    /\ script = "cbc_parser"
    /\ ~aborted
    /\ processed < Len(pdfs)
    /\ Let(parse_pdf_file(pdfs[processed + 1]), LAMBDA result :
           IF result.raised
           THEN aborted' = TRUE /\ UNCHANGED <<processed, parsed_all>>
           ELSE /\ parsed_all' = DictSet(parsed_all, Stem(pdfs[processed + 1].name),
                                         ReturnedDict(result))
                /\ processed' = processed + 1
                /\ UNCHANGED aborted)
    /\ UNCHANGED <<script, pdfs, out_file, success_count, storeVars>>

\* cbc_parser.main after the loop: OUT_FILE.write_text(json.dumps(parsed))
ParserMainWrite ==
    /\ script = "cbc_parser"
    /\ ~aborted
    /\ processed = Len(pdfs)
    /\ ~out_file.written
    /\ out_file' = [written |-> TRUE, records |-> parsed_all]
    /\ UNCHANGED <<script, pdfs, processed, parsed_all, aborted, success_count, storeVars>>

\* cbc_parser_new.main, one pass of "for pdf in pdfs" in which nothing raises
ParserNewMainLoop ==
    /\ script = "cbc_parser_new"
    /\ processed < Len(pdfs)
    /\ Let(parse_pdf_new(pdfs[processed + 1]), LAMBDA data :
           /\ parsed_all' = DictSet(parsed_all, Stem(pdfs[processed + 1].name), data)
           /\ InsertCurriculum(data.subject, data.grade, data))
    /\ processed' = processed + 1
    /\ success_count' = success_count + 1
    /\ UNCHANGED <<script, pdfs, out_file, aborted>>

\* insert_curriculum when cursor.execute raises sqlite3.Error and the row is
\* written all the same
InsertCurriculumRaisesAfterWrite(subject, grade, data) ==
    /\ curriculum' = Upsert(curriculum, seq + 1,
                            data_to_store(subject, grade, data, "auto_extracted"))
    /\ seq' = seq + 1
    /\ repeated' = FALSE
    /\ lastCall' = [op |-> "insert_raised", subject |-> subject, grade |-> grade, data |-> data]

\* insert_curriculum when cursor.execute raises sqlite3.Error (a locked or
\* full database): conn.commit() is not reached, "finally: conn.close()"
\* drops the open transaction, and with no except clause the error goes on
\* to the caller
InsertCurriculumRaises(subject, grade, data) ==
    /\ lastCall' = [op |-> "insert_raised", subject |-> subject, grade |-> grade, data |-> data]
    /\ repeated' = FALSE
    /\ UNCHANGED <<curriculum, seq>>

\* cbc_parser_new.main, one pass of "for pdf in pdfs" in which
\* insert_curriculum raises: "except Exception as e" prints the error, and
\* the statements after the call, success_count += 1 among them, are skipped
ParserNewMainLoopInsertRaises ==
    /\ script = "cbc_parser_new"
    /\ processed < Len(pdfs)
    /\ Let(parse_pdf_new(pdfs[processed + 1]), LAMBDA data :
           /\ parsed_all' = DictSet(parsed_all, Stem(pdfs[processed + 1].name), data)
           /\ InsertCurriculumRaises(data.subject, data.grade, data))
    /\ processed' = processed + 1
    /\ UNCHANGED <<script, pdfs, out_file, aborted, success_count>>

\* cbc_parser_new.main after the loop: the JSON backup
ParserNewMainWrite ==
    /\ script = "cbc_parser_new"
    /\ processed = Len(pdfs)
    /\ ~out_file.written
    /\ out_file' = [written |-> TRUE, records |-> parsed_all]
    /\ UNCHANGED <<script, pdfs, processed, parsed_all, aborted, success_count, storeVars>>

-----------------------------------------------------------------------------
(* The functions of cbc_parser.py called on their own, with missing input  *)

\* None handed over where a list of lines is expected
NoLines == <<NULL>>

NotCalled == [called |-> FALSE, raised |-> FALSE, value |-> NULL]

\* the call returned value
Returns(value) == [called |-> TRUE, raised |-> FALSE, value |-> value]

\* the call raised: AttributeError from None.replace, TypeError from
\* re.search(pattern, None) or from "for line in None"
Raises == [called |-> TRUE, raised |-> TRUE, value |-> NULL]

Functions ==
    {"normalize_text", "extract_strand_substrand", "extract_learning_outcomes",
     "extract_question_lines", "extract_suggested_learning_experiences",
     "extract_competencies", "extract_values"}

\* which arguments each function takes
TakesText ==
    {"normalize_text", "extract_learning_outcomes", "extract_question_lines",
     "extract_suggested_learning_experiences"}

TakesLines ==
    {"extract_strand_substrand", "extract_learning_outcomes", "extract_question_lines",
     "extract_competencies", "extract_values"}

\* the texts a call is made with: None, the empty string, and pages
TextArgs ==
    {NULL, ""} \cup {line \o "\n" : line \in FieldLinePool}
        \cup {"Specific Learning Outcomes:\nIdentify numbers up to one hundred in words\n"}

\* raw page text: every string of at most MaxRawLen characters out of a
\* carriage return, a newline, a letter and the A-circumflex that
\* normalize_text deletes
RawAlphabet == {"\r", "\n", "a", "|"}

MaxRawLen == 4

RawTexts == {Concat(chars) : chars \in UNION {[1..n -> RawAlphabet] : n \in 0..MaxRawLen}}

\* the lists of lines a call is made with: None, the empty list, and the
\* lines of the pages
LinesArgs == {NoLines} \cup {clean_lines(text) : text \in TextArgs \ {NULL}}

\* extract_learning_outcomes with arguments that may be None: re.search in
\* extract_block_items raises on a text that is None, and "for line in lines"
\* is reached only when the first two tiers yield nothing
CallLearningOutcomes(text, lines) ==
    IF text = NULL THEN Raises
    ELSE IF lines # NoLines THEN Returns(extract_learning_outcomes(text, lines))
    ELSE IF extract_block_items(text) # <<>> \/ ByEndCaptured(text) # <<>>
    THEN Returns(extract_learning_outcomes(text, <<>>))
    ELSE Raises

\* the call of one function with arguments that may be None
CallFunction(function, text, lines) ==
    CASE function = "normalize_text" ->
            IF text = NULL THEN Raises ELSE Returns(normalize_text(text))
      [] function = "extract_strand_substrand" ->
            IF lines = NoLines THEN Raises ELSE Returns(extract_strand_substrand(lines))
      [] function = "extract_learning_outcomes" -> CallLearningOutcomes(text, lines)
      [] function = "extract_question_lines" ->
            IF text = NULL \/ lines = NoLines THEN Raises
            ELSE Returns(extract_question_lines(lines, text))
      [] function = "extract_suggested_learning_experiences" ->
            IF text = NULL THEN Returns(<<>>)
            ELSE Returns(extract_suggested_learning_experiences(text))
      [] function = "extract_competencies" ->
            IF lines = NoLines THEN Raises ELSE Returns(extract_competencies(lines))
      [] function = "extract_values" ->
            IF lines = NoLines THEN Raises ELSE Returns(extract_values(lines))

\* no call
CallIdle == invoked = [function |-> "none", text |-> "", lines |-> <<>>] /\ outcome = NotCalled

\* a call is about to be made; an argument the function does not take is left
\* empty
CallInit ==
    /\ \E function \in Functions :
        \E text \in IF function = "normalize_text" THEN TextArgs \cup RawTexts
                    ELSE IF function \in TakesText THEN TextArgs ELSE {""} :
        \E lines \in IF function \in TakesLines THEN LinesArgs ELSE {<<>>} :
            invoked = [function |-> function, text |-> text, lines |-> lines]
    /\ outcome = NotCalled

CallPipelineFunction ==
    /\ ~outcome.called
    /\ invoked.function \in Functions
    /\ outcome' = CallFunction(invoked.function, invoked.text, invoked.lines)
    /\ UNCHANGED invoked

-----------------------------------------------------------------------------
(* lesson_generator.py: query_curriculum                                   *)

\* the characters of the subjects and grades in the order of their codes
AsciiOrder == " -0123456789ABCDEFGHIJKLMNOPQRSTUVWXYZ_abcdefghijklmnopqrstuvwxyz"

\* the rank of a character in that order, 0 for the end of the string
Code(c) == IF c = "" THEN 0 ELSE CHOOSE n \in 1..Len(AsciiOrder) : Ch(AsciiOrder, n) = c

\* a < b in the BINARY collation of SQLite
Before(a, b) ==
    \E p \in 1..(Len(a) + 1) :
        /\ \A q \in 1..(p - 1) : Ch(a, q) = Ch(b, q)
        /\ Code(Ch(a, p)) < Code(Ch(b, p))

\* ORDER BY subject, grade
RowBefore(r1, r2) ==
    \/ Before(r1.subject, r2.subject)
    \/ r1.subject = r2.subject /\ Before(r1.grade, r2.grade)

\* get_curriculum(): SELECT * FROM curriculum ORDER BY subject, grade, every
\* row parsed
get_curriculum(table) ==
    [n \in 1..Cardinality(table) |->
        parse_curriculum_row(
            CHOOSE row \in table : Cardinality({r \in table : RowBefore(r, row)}) = n - 1)]

Upper(s) == Concat([n \in 1..Len(s) |-> UpperChar(Ch(s, n))])

subject_map ==
    { <<"mathematics", "maths">>,
      <<"math", "maths">>,
      <<"science", "intergrated_science">>,
      <<"integrated science", "intergrated_science">>,
      <<"social studies", "social_studies">>,
      <<"creative arts", "creative_arts">>,
      <<"agriculture", "agriculture_and_nutrition">>,
      <<"agriculture and nutrition", "agriculture_and_nutrition">>,
      <<"creative arts and sports", "creative_arts_and_sports">>,
      <<"pre-technical studies", "pre_technical_studies">>,
      <<"pre technical studies", "pre_technical_studies">>,
      <<"indigenous languages", "indigenious_languages">>,
      <<"indigenous language", "indigenious_languages">> }

\* "if subject_normalized in subject_map: subject_normalized = subject_map[...]"
MapSubject(subject_normalized) ==
    IF \E pair \in subject_map : pair[1] = subject_normalized
    THEN (CHOOSE pair \in subject_map : pair[1] = subject_normalized)[2]
    ELSE subject_normalized

\* str.split(): the words between runs of white space
Words(text) == Filter(SplitOn(text, {" ", "\n", "\t", "\r"}), LAMBDA word : word # "")

\* f"Grade {grade}" if grade and not grade.startswith("Grade") else grade
NormalizeGrade(grade) ==
    IF grade # "" /\ ~StartsWith(grade, "Grade") THEN "Grade " \o grade ELSE grade

\* the condition of each of the three loops over all_curriculum
TierMatches(tier, entry, subject_normalized) ==
    CASE tier = 1 -> Lower(entry.subject) = ReplaceAll(subject_normalized, " ", "_")
      [] tier = 2 -> ReplaceAll(Lower(entry.subject), "_", " ") = subject_normalized
      [] tier = 3 -> \E n \in 1..Len(Words(subject_normalized)) :
                         Contains(ReplaceAll(Lower(entry.subject), "_", " "),
                                  Words(subject_normalized)[n])

\* the entries one loop would return, in the order of all_curriculum
TierHits(all_curriculum, tier, subject_normalized, grade_normalized) ==
    Filter(all_curriculum, LAMBDA entry :
        /\ TierMatches(tier, entry, subject_normalized)
        /\ Lower(entry.grade) = Lower(grade_normalized))

\* the three loops with the subject as normalised: the first entry of the
\* first loop that has one; <<>> stands for None, <<entry>> for an entry
QueryNormalized(table, subject_normalized, grade) ==
    Let(get_curriculum(table), LAMBDA all_curriculum :
    Let(Flatten([tier \in 1..3 |->
            TierHits(all_curriculum, tier, subject_normalized, NormalizeGrade(grade))]),
        LAMBDA hits : Take(hits, 1)))

\* the subject looked up as it was written
query_curriculum_subject_as_written(table, subject, grade) ==
    QueryNormalized(table, MapSubject(subject), grade)

query_curriculum(table, subject, grade) ==
    QueryNormalized(table, MapSubject(Lower(subject)), grade)

\* the keys of the records the store is queried with
QueryKeyPool ==
    << <<"Maths", "Grade 7">>, <<"maths", "Grade 7">>, <<"Social Studies", "Grade 7">>,
       <<"creative_arts_and_sports", "Grade 7">>, <<"maths", "Grade 8">> >>

\* how many records the queried store holds at most
MaxRows == 2

\* the store after insert_curriculum for each of keys
RECURSIVE StoreOf(_)
StoreOf(keys) ==
    IF keys = <<>> THEN {}
    ELSE Upsert(StoreOf(SubSeq(keys, 1, Len(keys) - 1)), Len(keys),
                data_to_store(keys[Len(keys)][1], keys[Len(keys)][2], FullData,
                              "auto_extracted"))

QueryStores ==
    {StoreOf(SubseqAt(QueryKeyPool, I)) :
        I \in {J \in SUBSET (1..Len(QueryKeyPool)) : Cardinality(J) <= MaxRows}}

\* the subjects asked for, each as written, in lower case and in upper case
QuerySubjects ==
    UNION {{subject, Lower(subject), Upper(subject)} :
        subject \in {"Mathematics", "Maths", "social studies", "Social Studies",
                     "Sports", "Kiswahili"}}

QueryGrades == {"Grade 7", "7", "Grade 9"}

\* a store and a query about to be made
QueryInit ==
    /\ curriculum \in QueryStores
    /\ seq = Cardinality(curriculum)
    /\ lastCall = [op |-> "none"]
    /\ repeated = FALSE
    /\ \E subject \in QuerySubjects, grade \in QueryGrades :
           invoked = [function |-> "query_curriculum", subject |-> subject, grade |-> grade]
    /\ outcome = NotCalled

QueryCurriculum ==
    /\ ~outcome.called
    /\ invoked.function = "query_curriculum"
    /\ outcome' = Returns(query_curriculum(curriculum, invoked.subject, invoked.grade))
    /\ UNCHANGED <<invoked, storeVars>>

-----------------------------------------------------------------------------
(* lesson_generator.py: the three template generators                      *)

\* the words of a phrase with \s+ between them
RECURSIVE Phrase(_, _, _)
Phrase(s, P, words) ==
    IF Len(words) = 1 THEN Lit(s, P, words[1])
    ELSE Phrase(s, Spaces1(s, Lit(s, P, Head(words))), Tail(words))

\* r'\(\s*(\d+)\s*lessons?\s*\)' matched at position i of the lower-cased
\* strand: <<group 1>>, or <<>> when there is no match at i
LessonCountAt(low, i) ==
    Let(RunEnd(low, i + 1, {" ", "\n", "\t", "\r"}), LAMBDA from :
    Let(RunEnd(low, from, {"0", "1", "2", "3", "4", "5", "6", "7", "8", "9"}), LAMBDA to :
        IF /\ Ch(low, i) = "("
           /\ to > from
           /\ Lit(low, Spaces0(low, OptLit(low, Lit(low, Spaces0(low, {to}), "lesson"), "s")),
                  ")") # {}
        THEN <<SubSeq(low, from, to - 1)>>
        ELSE <<>>))

\* the lesson count written in the strand, 1 for no strand, 0 for no count
extract_lesson_count(strand_text) ==
    IF strand_text \in {"", NULL} THEN 1
    ELSE Let(Flatten([i \in 1..Len(strand_text) |-> LessonCountAt(Lower(strand_text), i)]),
             LAMBDA found :
                 IF found # <<>> THEN Max({1, ParseInt(found[1])}) ELSE 0)

\* is_boundary of _group_outcomes_into_substrands
IsBoundary(text) ==
    \/ Phrase(Lower(text), {1}, <<"by", "the", "end", "of", "the", "sub">>) # {}
    \/ Lit(Lower(text),
           Spaces0(Lower(text),
                   Phrase(Lower(text), {1}, <<"the", "learner", "should", "be", "able", "to">>)),
           ":") # {}

\* the first loop: a new group at every boundary marker
BoundaryGroups(texts) ==
    Let({k \in 1..Len(texts) : k = 1 \/ IsBoundary(texts[k])}, LAMBDA starts :
        [n \in 1..Cardinality(starts) |->
            Let(SubseqAt([k \in 1..Len(texts) |-> k], starts), LAMBDA at :
                SubSeq(texts, at[n], IF n < Len(at) THEN at[n + 1] - 1 ELSE Len(texts)))])

RECURSIVE TotalLen(_)
TotalLen(group) == IF group = <<>> THEN 0 ELSE Len(Head(group)) + TotalLen(Tail(group))

\* the second loop: a group shorter than 40 characters joins the next one
RECURSIVE MergeGroups(_)
MergeGroups(groups) ==
    IF groups = <<>> THEN <<>>
    ELSE IF TotalLen(groups[1]) < 40 /\ Len(groups) >= 2
    THEN <<groups[1] \o groups[2]>> \o MergeGroups(SubSeq(groups, 3, Len(groups)))
    ELSE <<groups[1]>> \o MergeGroups(Tail(groups))

group_outcomes_into_substrands(learning_outcomes) ==
    Let(MergeGroups(BoundaryGroups(MapSeq(learning_outcomes, Strip))), LAMBDA merged :
        IF merged # <<>> THEN merged ELSE <<learning_outcomes>>)

\* [o for o in list if len(o.strip()) > 10]
NotStub(list) == Filter(list, LAMBDA o : Len(Strip(o)) > 10)

\* int(re.search(r'\d+', grade).group()) if re.search(r'\d+', grade) else 7
GradeNum(grade) ==
    Let({i \in 1..Len(grade) : IsDigit(Ch(grade, i))}, LAMBDA digits :
        IF digits = {} THEN 7
        ELSE ParseInt(SubSeq(grade, Min(digits),
                             RunEnd(grade, Min(digits),
                                    {"0", "1", "2", "3", "4", "5", "6", "7", "8", "9"}) - 1)))

\* math.ceil(a / b)
Ceil(a, b) == (a + b - 1) \div b

\* the estimate of generate_scheme_of_work when the strand names no count
EstimatedLessons(content_items, groups) ==
    IF content_items >= 12 THEN Max({3, Min({12, content_items \div 3})})
    ELSE IF content_items >= 6 THEN Max({2, content_items \div 3})
    ELSE Max({groups, 1})

TotalLessons(entry) ==
    Let(extract_lesson_count(entry.strand), LAMBDA total_lessons :
        IF total_lessons # 0 THEN total_lessons
        ELSE EstimatedLessons(
                 Len(NotStub(entry.learning_outcomes))
                     + Len(NotStub(entry.suggested_learning_experiences)),
                 Len(group_outcomes_into_substrands(NotStub(entry.learning_outcomes)))))

\* a term has at most this many weeks
TermWeeks == 13

\* lessons_per_week and num_weeks as the loop uses them
WeekPlan(total_lessons, grade_num) ==
    Let(IF grade_num <= 6 THEN 3 ELSE 2, LAMBDA lessons_per_week :
    Let(Min({Max({1, Ceil(total_lessons, lessons_per_week)}), TermWeeks}), LAMBDA num_weeks :
        [num_weeks |-> num_weeks,
         lessons_per_week |->
            IF num_weeks * lessons_per_week < total_lessons
            THEN Ceil(total_lessons, num_weeks)
            ELSE lessons_per_week]))

\* min(lessons_per_week, remaining), 1 when that is not positive
WeekLessonCount(lessons_per_week, remaining) ==
    IF Min({lessons_per_week, remaining}) <= 0 THEN 1 ELSE Min({lessons_per_week, remaining})

\* the loop over the weeks: one row per lesson of every week, the week and
\* the numbers of each row (the text cells of a row are not modelled)
RECURSIVE LessonRows(_, _, _, _)
LessonRows(week_idx, lesson_counter, total_lessons, plan) ==
    IF week_idx >= plan.num_weeks THEN <<>>
    ELSE Let(WeekLessonCount(plan.lessons_per_week, total_lessons - lesson_counter),
             LAMBDA week_lesson_count :
                 [lsn_idx \in 1..week_lesson_count |->
                     [week |-> week_idx + 1,
                      lesson |-> lesson_counter + lsn_idx,
                      lesson_in_week |-> lsn_idx]]
                 \o LessonRows(week_idx + 1, lesson_counter + week_lesson_count,
                              total_lessons, plan))

\* the result of each generator when query_curriculum found nothing
NotFound(subject, grade) ==
    [success |-> FALSE,
     error |-> "Curriculum not found for " \o subject \o " " \o grade,
     content |-> ""]

\* the scheme: the rows of the table and the figures of the footer
SchemeOfWork(entry, subject, grade) ==
    Let(TotalLessons(entry), LAMBDA total_lessons :
    Let(WeekPlan(total_lessons, GradeNum(grade)), LAMBDA plan :
        [success |-> TRUE,
         content |-> [table_rows |-> LessonRows(0, 0, total_lessons, plan),
                      total_lessons |-> total_lessons,
                      num_weeks |-> plan.num_weeks],
         subject |-> subject,
         grade |-> grade,
         term |-> "1"]))

generate_scheme_of_work(table, subject, grade) ==
    Let(query_curriculum(table, subject, grade), LAMBDA found :
        IF found = <<>> THEN NotFound(subject, grade)
        ELSE SchemeOfWork(found[1], subject, grade))

\* the estimate of generate_lesson_plan when the strand names no count
NumLessons(entry) ==
    Let(extract_lesson_count(entry.strand), LAMBDA num_lessons :
        IF num_lessons # 0 THEN num_lessons
        ELSE Let(Len(NotStub(entry.learning_outcomes))
                     + Len(NotStub(entry.suggested_learning_experiences)),
                 LAMBDA content_items :
                     IF content_items >= 12 THEN Max({3, Min({12, content_items \div 3})})
                     ELSE IF content_items >= 6 THEN Max({2, content_items \div 3})
                     ELSE 1))

\* the lesson plans, each by its number (the text of a plan is not modelled)
generate_lesson_plan(table, subject, grade) ==
    Let(query_curriculum(table, subject, grade), LAMBDA found :
        IF found = <<>> THEN NotFound(subject, grade)
        ELSE [success |-> TRUE,
              content |-> [n \in 1..NumLessons(found[1]) |->
                              [lesson_number |-> n, total_lessons |-> NumLessons(found[1])]],
              subject |-> subject,
              grade |-> grade,
              duration |-> IF GradeNum(grade) <= 6 THEN 35 ELSE 40,
              num_lessons |-> NumLessons(found[1])])

\* the rubric filled from its defaults when no record is found
generate_rubric_from_defaults(table, subject, grade) ==
    [success |-> TRUE,
     content |-> <<"CBC AUTO-GENERATED RUBRIC TEMPLATE">>,
     subject |-> subject,
     grade |-> grade,
     assessment_type |-> "performance"]

\* the rubric by its heading (the rows of the rubric are not modelled)
generate_rubric(table, subject, grade) ==
    Let(query_curriculum(table, subject, grade), LAMBDA found :
        IF found = <<>> THEN NotFound(subject, grade)
        ELSE [success |-> TRUE,
              content |-> <<"CBC AUTO-GENERATED RUBRIC TEMPLATE">>,
              subject |-> subject,
              grade |-> grade,
              assessment_type |-> "performance"])

Generators == {"generate_lesson_plan", "generate_scheme_of_work", "generate_rubric"}

\* the largest lesson count a strand of the pool names
MaxLessons == 40

\* strands with a lesson count in the forms the docstring lists, and without
SchemeStrands ==
    {"1.3 Fractions (" \o ToString(n) \o " lessons)" : n \in 0..MaxLessons}
        \cup {"1.3 Fractions", "", "1.2 Netball ( 25 Lessons )", "2.1 Area (1 lesson)"}

SixOutcomes ==
    [n \in 1..6 |-> "explain the use of fractions in task " \o ToString(n)]

\* learning outcomes and experiences: none, two sub-strands with their
\* preambles, six outcomes, six outcomes with six experiences
SchemeContents ==
    { <<<<>>, <<>>>>,
      << <<"By the end of the sub strand",
           "the learner should be able to: add fractions",
           "By the end of the sub-strand the learner should be able to: a) identify place value",
           "b) compare fractions with different denominators">>,
         <<>> >>,
      <<SixOutcomes, <<>>>>,
      <<SixOutcomes, SixOutcomes>> }

SchemeGrades == {"Grade 7", "Grade 4", "Grade PP"}

\* a store with the one record insert_curriculum("maths", grade, data) leaves
SchemeStore(grade, strand, contents) ==
    Upsert({}, 1,
           data_to_store("maths", grade,
                         [FullData EXCEPT !.strand = strand,
                                          !.learning_outcomes = contents[1],
                                          !.suggested_learning_experiences = contents[2]],
                         "auto_extracted"))

\* a store and a generator about to be called, for the grade of the record
\* or for a grade no record has
GeneratorInit ==
    /\ \/ \E grade \in SchemeGrades, strand \in SchemeStrands, contents \in SchemeContents :
              /\ curriculum = SchemeStore(grade, strand, contents)
              /\ \E function \in Generators, subject \in {"Mathematics", "Kiswahili"},
                    asked \in {grade, "Grade 9"} :
                     invoked = [function |-> function, subject |-> subject, grade |-> asked]
       \/ /\ curriculum \in QueryStores
          /\ \E function \in Generators, subject \in {"Mathematics", "Kiswahili"},
                grade \in QueryGrades :
                 invoked = [function |-> function, subject |-> subject, grade |-> grade]
    /\ seq = Cardinality(curriculum)
    /\ lastCall = [op |-> "none"]
    /\ repeated = FALSE
    /\ outcome = NotCalled

GenerateLessonPlan ==
    /\ ~outcome.called
    /\ invoked.function = "generate_lesson_plan"
    /\ outcome' = Returns(generate_lesson_plan(curriculum, invoked.subject, invoked.grade))
    /\ UNCHANGED <<invoked, storeVars>>

GenerateSchemeOfWork ==
    /\ ~outcome.called
    /\ invoked.function = "generate_scheme_of_work"
    /\ outcome' = Returns(generate_scheme_of_work(curriculum, invoked.subject, invoked.grade))
    /\ UNCHANGED <<invoked, storeVars>>

GenerateRubric ==
    /\ ~outcome.called
    /\ invoked.function = "generate_rubric"
    /\ outcome' = Returns(generate_rubric(curriculum, invoked.subject, invoked.grade))
    /\ UNCHANGED <<invoked, storeVars>>

-----------------------------------------------------------------------------
(* gemini_integration.py: the two AI providers and chat                    *)

\* "if context:" and the like: neither None nor the empty string
Given(x) == x \notin {NULL, ""}

\* GeminiAI.__init__: env holds the API key, whether google.generativeai
\* could be imported and whether genai.configure raises; backend is how
\* generate_content will behave
GeminiAI(env, backend) ==
    [api_key |-> env.api_key,
     initialized |-> Given(env.api_key) /\ env.GEMINI_AVAILABLE /\ env.configure # "raises",
     backend |-> backend]

\* OpenRouterAI.__init__: env holds the API key and how the request to
\* /auth/key ends; backend is how the chat completions request will end
OpenRouterAI(env, backend) ==
    [api_key |-> env.api_key,
     initialized |-> Given(env.api_key) /\ env.auth = "200",
     backend |-> backend]

FullPrompt(message, context) ==
    IF Given(context) THEN context \o "\n\nUser query: " \o message ELSE message

\* GeminiAI.chat_with_ai
GeminiChatWithAI(ai, message, context) ==
    IF ~ai.initialized THEN [success |-> FALSE, error |-> "Gemini AI not initialized"]
    ELSE CASE ai.backend = "text" ->
                [success |-> TRUE, response |-> "Gemini: " \o FullPrompt(message, context)]
           [] ai.backend = "empty" ->
                [success |-> FALSE, error |-> "No response from Gemini"]
           [] ai.backend = "raises" ->
                [success |-> FALSE, error |-> "generate_content failed"]

\* OpenRouterAI._make_request: the content, NULL for None
OpenRouterMakeRequest(ai, prompt) ==
    CASE ai.backend = "text" -> "OpenRouter: " \o prompt
      [] ai.backend = "empty" -> ""
      [] ai.backend \in {"no_choices", "http_error", "raises"} -> NULL

\* OpenRouterAI.chat_with_ai
OpenRouterChatWithAI(ai, message, context) ==
    IF ~ai.initialized THEN [success |-> FALSE, error |-> "OpenRouter AI not initialized"]
    ELSE Let(OpenRouterMakeRequest(ai, FullPrompt(message, context)), LAMBDA content :
             IF Given(content) THEN [success |-> TRUE, response |-> content]
             ELSE [success |-> FALSE, error |-> "No response from OpenRouter"])

AllFailed == [success |-> FALSE, error |-> "All AI services failed or unavailable"]

\* what is left of chat after the Gemini block: the providers called and
\* the result
ChatFallback(services, message, context, calls) ==
    IF services.openrouter.initialized
    THEN Let(OpenRouterChatWithAI(services.openrouter, message, context), LAMBDA result :
             [calls |-> Append(calls, "openrouter"),
              result |-> IF result.success THEN result ELSE AllFailed])
    ELSE [calls |-> calls, result |-> AllFailed]

\* chat with the two blocks in the other order
chat_openrouter_first(services, message, context) ==
    IF services.openrouter.initialized
           /\ OpenRouterChatWithAI(services.openrouter, message, context).success
    THEN [calls |-> <<"openrouter">>,
          result |-> OpenRouterChatWithAI(services.openrouter, message, context)]
    ELSE IF services.gemini.initialized
    THEN [calls |-> IF services.openrouter.initialized THEN <<"openrouter", "gemini">>
                    ELSE <<"gemini">>,
          result |-> IF GeminiChatWithAI(services.gemini, message, context).success
                     THEN GeminiChatWithAI(services.gemini, message, context)
                     ELSE AllFailed]
    ELSE [calls |-> IF services.openrouter.initialized THEN <<"openrouter">> ELSE <<>>,
          result |-> AllFailed]

\* chat: the providers it called, in order, and the result it returned
chat(services, message, context) ==
    IF services.gemini.initialized
    THEN Let(GeminiChatWithAI(services.gemini, message, context), LAMBDA result :
             IF result.success THEN [calls |-> <<"gemini">>, result |-> result]
             ELSE ChatFallback(services, message, context, <<"gemini">>))
    ELSE ChatFallback(services, message, context, <<>>)

\* _get_active_ai: the name of the active provider, NULL for none
get_active_ai(services) ==
    IF services.gemini.initialized THEN "Gemini"
    ELSE IF services.openrouter.initialized THEN "OpenRouter"
    ELSE NULL

GeminiEnvs ==
    [api_key : {NULL, "gemini-key"}, GEMINI_AVAILABLE : BOOLEAN, configure : {"ok", "raises"}]

OpenRouterEnvs == [api_key : {NULL, "openrouter-key"}, auth : {"200", "401", "raises"}]

GeminiBackends == {"text", "empty", "raises"}

OpenRouterBackends == {"text", "empty", "no_choices", "http_error", "raises"}

Messages == {"What is a fraction?"}

Contexts == {NULL, "Grade 7 maths"}

NotChatting == [called |-> FALSE, message |-> "", context |-> NULL, calls |-> <<>>,
                result |-> AllFailed]

\* no provider configured, chat not called
ChatIdle ==
    /\ ai_services =
           [gemini |-> GeminiAI([api_key |-> NULL, GEMINI_AVAILABLE |-> FALSE,
                                 configure |-> "ok"], "raises"),
            openrouter |-> OpenRouterAI([api_key |-> NULL, auth |-> "401"], "raises")]
    /\ conversation = NotChatting

\* the module as imported: both providers constructed from the environment
ChatInit ==
    /\ \E genv \in GeminiEnvs, gb \in GeminiBackends,
          oenv \in OpenRouterEnvs, ob \in OpenRouterBackends :
           ai_services = [gemini |-> GeminiAI(genv, gb), openrouter |-> OpenRouterAI(oenv, ob)]
    /\ conversation = NotChatting

Chat(message, context) ==
    /\ ~conversation.called
    /\ conversation' =
           Let(chat(ai_services, message, context), LAMBDA done :
               [called |-> TRUE, message |-> message, context |-> context,
                calls |-> done.calls, result |-> done.result])
    /\ UNCHANGED ai_services

\* BackgroundTaskScheduler.__init__, with the thread started last as
\* monitor_thread (0 for None)
BackgroundTaskScheduler == [tasks |-> <<>>, running |-> FALSE, monitor_thread |-> 0]

SchedulerIdle ==
    /\ scheduler = BackgroundTaskScheduler
    /\ threads = <<>>
    /\ caller = [pc |-> "idle", started |-> 0]

-----------------------------------------------------------------------------
(* background_tasks.py: BackgroundTaskScheduler                            *)

\* the tasks registered with the scheduler
TaskNames == <<"database_backup", "database_health">>

\* add_task: last_run is FALSE for None, TRUE once the task has run
add_task(self, task_name) ==
    [self EXCEPT !.tasks = Append(Filter(self.tasks, LAMBDA task : task.name # task_name),
                                  [name |-> task_name, last_run |-> FALSE, enabled |-> TRUE])]

\* enable_task and disable_task
SetEnabled(self, task_name, enabled) ==
    [self EXCEPT !.tasks = MapSeq(self.tasks, LAMBDA task :
        IF task.name = task_name THEN [task EXCEPT !.enabled = enabled] ELSE task)]

\* how many times start() is called at most
MaxStarts == 3

NotStarted == [pc |-> "idle", started |-> 0]

\* the scheduler as initialize_maintenance_tasks has it before start()
SchedulerInit ==
    /\ scheduler = add_task(add_task(BackgroundTaskScheduler, TaskNames[1]), TaskNames[2])
    /\ threads = <<>>
    /\ caller = NotStarted

\* start() while the scheduler is running: the warning, nothing else
StartWhileRunning ==
    /\ caller.pc = "idle"
    /\ caller.started < MaxStarts
    /\ scheduler.running
    /\ caller' = [caller EXCEPT !.started = @ + 1]
    /\ UNCHANGED <<scheduler, threads>>

\* start(): running set, a new thread created and started at the top of
\* _monitor_loop
Start ==
    /\ caller.pc = "idle"
    /\ caller.started < MaxStarts
    /\ ~scheduler.running
    /\ threads' = Append(threads, "while")
    /\ scheduler' = [scheduler EXCEPT !.running = TRUE, !.monitor_thread = Len(threads) + 1]
    /\ caller' = [caller EXCEPT !.started = @ + 1]

\* stop() up to the join: running cleared, the join entered when there is a
\* monitor thread
Stop ==
    /\ caller.pc = "idle"
    /\ scheduler' = [scheduler EXCEPT !.running = FALSE]
    /\ caller' = [caller EXCEPT !.pc = IF scheduler.monitor_thread # 0 THEN "join" ELSE "idle"]
    /\ UNCHANGED threads

\* join(timeout=5) returns because the monitor thread has ended
JoinThreadEnded ==
    /\ caller.pc = "join"
    /\ threads[scheduler.monitor_thread] = "ended"
    /\ caller' = [caller EXCEPT !.pc = "idle"]
    /\ UNCHANGED <<scheduler, threads>>

\* join(timeout=5) returns after five seconds with the thread still alive:
\* in a task, or in time.sleep(60)
JoinTimedOut ==
    /\ caller.pc = "join"
    /\ threads[scheduler.monitor_thread] \in {"tasks", "sleep"}
    /\ caller' = [caller EXCEPT !.pc = "idle"]
    /\ UNCHANGED <<scheduler, threads>>

EnableTask(task_name) ==
    /\ caller.pc = "idle"
    /\ scheduler' = SetEnabled(scheduler, task_name, TRUE)
    /\ UNCHANGED <<threads, caller>>

DisableTask(task_name) ==
    /\ caller.pc = "idle"
    /\ scheduler' = SetEnabled(scheduler, task_name, FALSE)
    /\ UNCHANGED <<threads, caller>>

\* "while self.running:" in thread t
MonitorLoopTest(t) ==
    /\ threads[t] = "while"
    /\ threads' = [threads EXCEPT ![t] = IF scheduler.running THEN "tasks" ELSE "ended"]
    /\ UNCHANGED <<scheduler, caller>>

\* the pass over the tasks in thread t: every enabled task that has never
\* run is due, one that has run is due when its interval has passed; a due
\* task runs and, unless it raised, gets its last_run; ok holds the indices
\* of the tasks that ran without raising
MonitorLoopTasks(t, ok) ==
    /\ threads[t] = "tasks"
    /\ \A n \in ok : scheduler.tasks[n].enabled
    /\ scheduler' = [scheduler EXCEPT !.tasks =
           [n \in 1..Len(scheduler.tasks) |->
               IF n \in ok THEN [scheduler.tasks[n] EXCEPT !.last_run = TRUE]
               ELSE scheduler.tasks[n]]]
    /\ threads' = [threads EXCEPT ![t] = "sleep"]
    /\ UNCHANGED caller

\* time.sleep(60) is over in thread t
MonitorLoopWakes(t) ==
    /\ threads[t] = "sleep"
    /\ threads' = [threads EXCEPT ![t] = "while"]
    /\ UNCHANGED <<scheduler, caller>>

-----------------------------------------------------------------------------
(* Specifications: one per component, the other components left idle       *)

ServicesIdle == ChatIdle /\ SchedulerIdle

StoreSpecInit == StoreInit /\ ClassifyIdle /\ PagesInit /\ BatchIdle /\ CallIdle /\ ServicesIdle

StoreSpecNext ==
    \/ \E subject \in Subjects, grade \in Grades, data \in DataPool :
            InsertCurriculum(subject, grade, data) /\ UNCHANGED notStore
    \/ \E curriculum_id \in 1..MaxInserts, body \in BodyPool :
            UpdateCurriculum(curriculum_id, body) /\ UNCHANGED notStore

SpecStore == StoreSpecInit /\ [][StoreSpecNext]_vars

ClassifySpecInit == ClassifyInit /\ StoreInit /\ PagesInit /\ BatchIdle /\ CallIdle /\ ServicesIdle

ClassifySpecNext ==
    \/ Classify /\ UNCHANGED notClassify
    \/ ClassifyAgain /\ UNCHANGED notClassify

SpecClassify == ClassifySpecInit /\ [][ClassifySpecNext]_vars

ExtractSpecInit == TextInit /\ StoreInit /\ ClassifyIdle /\ BatchIdle /\ CallIdle /\ ServicesIdle

ExtractSpecNext ==
    \/ \E line \in LinePool : AppendLine(line) /\ UNCHANGED notParse
    \/ \E n \in NumberedCounts : AppendNumberedLines(n) /\ UNCHANGED notParse
    \/ ParsePdf /\ UNCHANGED notParse

SpecExtract == ExtractSpecInit /\ [][ExtractSpecNext]_vars

PagesSpecInit == PagesInit /\ StoreInit /\ ClassifyIdle /\ BatchIdle /\ CallIdle /\ ServicesIdle

PagesSpecNext ==
    \/ \E page \in PagePool : AppendPage(page) /\ UNCHANGED notParse
    \/ ParsePdf /\ UNCHANGED notParse

SpecPages == PagesSpecInit /\ [][PagesSpecNext]_vars

FieldsSpecInit == TextInit /\ StoreInit /\ ClassifyIdle /\ BatchIdle /\ CallIdle /\ ServicesIdle

FieldsSpecNext ==
    \/ \E line \in FieldLinePool : AppendFieldLine(line) /\ UNCHANGED notParse
    \/ ParsePdf /\ UNCHANGED notParse

SpecFields == FieldsSpecInit /\ [][FieldsSpecNext]_vars

CallsSpecInit == CallInit /\ StoreInit /\ ClassifyIdle /\ PagesInit /\ BatchIdle /\ ServicesIdle

CallsSpecNext == CallPipelineFunction /\ UNCHANGED notCall

SpecCalls == CallsSpecInit /\ [][CallsSpecNext]_vars

QuerySpecInit ==
    (QueryInit \/ GeneratorInit) /\ ClassifyIdle /\ PagesInit /\ BatchIdle /\ ServicesIdle

QuerySpecNext ==
    /\ \/ QueryCurriculum
       \/ GenerateLessonPlan
       \/ GenerateSchemeOfWork
       \/ GenerateRubric
    /\ UNCHANGED <<classifyVars, parseVars, batchVars, serviceVars>>

SpecQuery == QuerySpecInit /\ [][QuerySpecNext]_vars

ChatSpecInit ==
    ChatInit /\ SchedulerIdle /\ StoreInit /\ ClassifyIdle /\ PagesInit /\ BatchIdle /\ CallIdle

ChatSpecNext ==
    \E message \in Messages, context \in Contexts : Chat(message, context) /\ UNCHANGED notChat

SpecChat == ChatSpecInit /\ [][ChatSpecNext]_vars

SchedulerSpecInit ==
    SchedulerInit /\ ChatIdle /\ StoreInit /\ ClassifyIdle /\ PagesInit /\ BatchIdle /\ CallIdle

SchedulerSpecNext ==
    \/ Start /\ UNCHANGED notScheduler
    \/ StartWhileRunning /\ UNCHANGED notScheduler
    \/ Stop /\ UNCHANGED notScheduler
    \/ JoinThreadEnded /\ UNCHANGED notScheduler
    \/ JoinTimedOut /\ UNCHANGED notScheduler
    \/ \E n \in 1..Len(TaskNames) : EnableTask(TaskNames[n]) /\ UNCHANGED notScheduler
    \/ \E n \in 1..Len(TaskNames) : DisableTask(TaskNames[n]) /\ UNCHANGED notScheduler
    \/ \E t \in 1..Len(threads) : MonitorLoopTest(t) /\ UNCHANGED notScheduler
    \/ \E t \in 1..Len(threads), ok \in SUBSET (1..Len(TaskNames)) :
            MonitorLoopTasks(t, ok) /\ UNCHANGED notScheduler
    \/ \E t \in 1..Len(threads) : MonitorLoopWakes(t) /\ UNCHANGED notScheduler

SpecScheduler == SchedulerSpecInit /\ [][SchedulerSpecNext]_vars

BatchSpecInit == BatchInit /\ StoreInit /\ ClassifyIdle /\ PagesInit /\ CallIdle /\ ServicesIdle

BatchSpecNext ==
    \/ ParserMainLoop /\ UNCHANGED notBatch
    \/ ParserMainWrite /\ UNCHANGED notBatch
    \/ ParserNewMainLoop /\ UNCHANGED notBatch
    \/ ParserNewMainLoopInsertRaises /\ UNCHANGED notBatch
    \/ ParserNewMainWrite /\ UNCHANGED notBatch

SpecBatch == BatchSpecInit /\ [][BatchSpecNext]_vars

-----------------------------------------------------------------------------
(* Claims about the curriculum store                                       *)

\* the rows stored under exactly this subject and grade
RowsFor(subject, grade) == {row \in curriculum : row.subject = subject /\ row.grade = grade}

\* C1: every stored record's completeness_score equals calculate_completeness
\* applied to the record's currently stored fields, after any sequence of
\* insert_curriculum upserts and update_curriculum edits (no stale score).
C1_NoStaleScore ==
    \A row \in curriculum :
        row.completeness_score = calculate_completeness(parse_curriculum_row(row))

\* C5: after insert_curriculum has been called twice in a row with the same
\* subject, grade and record, exactly one row is stored under that key and its
\* fields, status and score are those of the second call's input.
C5_UpsertTwiceOneRecord ==
    (repeated /\ lastCall.op = "insert") =>
        LET rows == RowsFor(lastCall.subject, lastCall.grade)
            data == lastCall.data
        IN  /\ Cardinality(rows) = 1
            /\ \A row \in rows :
                LET entry == parse_curriculum_row(row)
                IN  /\ entry.strand = data.strand
                    /\ entry.substrand = data.substrand
                    /\ entry.learning_outcomes = data.learning_outcomes
                    /\ entry.key_inquiry_questions = data.key_inquiry_questions
                    /\ entry.suggested_learning_experiences = data.suggested_learning_experiences
                    /\ entry.core_competencies = data.core_competencies
                    /\ entry.values = data.values
                    /\ entry.status = "auto_extracted"
                    /\ entry.completeness_score = calculate_completeness(data)

\* a repeated insert of the full record while a second key is stored as well
C5_Witness ==
    /\ repeated
    /\ lastCall.op = "insert"
    /\ lastCall.data = FullData
    /\ Cardinality(curriculum) = 2

\* C6: no two stored records have subject and grade equal when compared
\* case-insensitively.
C6_CaseInsensitiveUnique ==
    \A r1 \in curriculum : \A r2 \in curriculum :
        (Lower(r1.subject) = Lower(r2.subject) /\ Lower(r1.grade) = Lower(r2.grade))
            => r1 = r2

-----------------------------------------------------------------------------
(* Claims about the classifier                                             *)

ListNames == {"competencies", "values", "links", "pcis"}

Entries(list) == {classified[list][k] : k \in 1..Len(classified[list])}

\* C2 as stated: the four lists returned by _classify_competency_items are
\* pairwise disjoint; no string, compared case-insensitively, appears in two
\* of them, strings produced by stripping a prefix included.
C2_ListsDisjoint ==
    classified # NotClassified =>
        \A l1 \in ListNames : \A l2 \in ListNames \ {l1} :
            \A a \in Entries(l1) : \A b \in Entries(l2) : Lower(a) # Lower(b)

\* the strings that reached a list with a label prefix stripped from the item
StrippedInto(list) ==
    {ClassifyItem(items[i]).text : i \in
        {j \in 1..Len(items) : /\ ClassifyItem(items[j]).list = list
                               /\ ClassifyItem(items[j]).text # Strip(items[j])}}

\* the strings that reached a list exactly as the (stripped of white space) item
VerbatimIn(list) ==
    {ClassifyItem(items[i]).text : i \in
        {j \in 1..Len(items) : /\ ClassifyItem(items[j]).list = list
                               /\ ClassifyItem(items[j]).text = Strip(items[j])}}

\* C2 as amended: each returned list holds exactly the strings its items were
\* placed with, and two strings of different lists that are equal when compared
\* case-insensitively exist only when at least one of them was produced by
\* stripping a label prefix; the strings placed verbatim are pairwise disjoint
\* across the four lists.
C2_VerbatimDisjoint ==
    classified # NotClassified =>
        /\ \A l \in ListNames : Entries(l) = StrippedInto(l) \cup VerbatimIn(l)
        /\ \A l1 \in ListNames : \A l2 \in ListNames \ {l1} :
            \A a \in VerbatimIn(l1) : \A b \in VerbatimIn(l2) : Lower(a) # Lower(b)

\* two case variants of one item were classified, and an item of another list
C2_Witness ==
    /\ classified # NotClassified
    /\ Len(classified.values) = 2
    /\ Lower(classified.values[1]) = Lower(classified.values[2])

-----------------------------------------------------------------------------
(* Claims about the extractors                                             *)

\* parse_pdf has run and returned a record
Returned == parsed # NotParsed /\ ~parsed.raised

\* C3: each extractor's output respects its cap: at most 30 learning
\* outcomes (whichever tier produced them), 15 questions, 15 suggested
\* learning experiences, 20 competencies and 20 values.
C3_ExtractorCaps ==
    Returned =>
        /\ Len(parsed.learning_outcomes) <= 30
        /\ Len(parsed.key_inquiry_questions) <= 15
        /\ Len(parsed.suggested_learning_experiences) <= 15
        /\ Len(parsed.core_competencies) <= 20
        /\ Len(parsed.values) <= 20

-----------------------------------------------------------------------------
(* Claims about the page filter and parse_pdf                              *)

\* the normalized text of the pages of doc at the 1-based positions I, in order
NormalizedAt(I) == SubseqAt([k \in 1..Len(doc) |-> normalize_text(doc[k])], I)

\* C7 as stated: extract_relevant_pages returns, in order, exactly the pages
\* at index 11 or later that satisfy the relevance predicate.
C7_OnlyRelevantPages ==
    parsed # NotParsed =>
        parsed.filtered =
            NormalizedAt({k \in (FirstContentIndex + 1)..Len(doc) :
                              doc[k] # UNREADABLE /\ is_relevant_page(doc[k])})

\* C7 as the code has it: extract_relevant_pages returns, in order, the
\* normalized text of exactly the pages at index 11 or later that can be read
\* and are not blank, whatever the relevance predicate says of them.
C7_NonBlankPagesFromIndex11 ==
    parsed # NotParsed =>
        parsed.filtered =
            NormalizedAt({k \in (FirstContentIndex + 1)..Len(doc) :
                              doc[k] # UNREADABLE /\ Strip(normalize_text(doc[k])) # ""})

\* a PDF with pages from index 11 on of which one is returned although it
\* is not relevant, and one is left out
C7_Witness ==
    /\ parsed # NotParsed
    /\ \E k \in (FirstContentIndex + 1)..Len(doc) :
           /\ doc[k] # UNREADABLE
           /\ ~is_relevant_page(doc[k])
           /\ \E j \in 1..Len(parsed.filtered) : parsed.filtered[j] = normalize_text(doc[k])
    /\ Len(parsed.filtered) < Len(doc) - FirstContentIndex

\* C8: when the page filter returns no page, the text handed to the
\* extractors is built from all pages of the document, in order; the
\* extractors never run on an empty page list when the document has a page.
C8_FallbackToAllPages ==
    Returned =>
        /\ parsed.filtered = <<>> =>
               /\ parsed.relevant_pages = NormalizedAt(1..Len(doc))
               /\ parsed.full_text = normalize_text(Join(NormalizedAt(1..Len(doc)), "\n"))
        /\ Len(doc) >= 1 => parsed.relevant_pages # <<>>

\* the filter scanned pages from index 11 on, kept none, and parse_pdf
\* returned a record built from all pages
C8_Witness ==
    /\ Returned
    /\ Len(doc) > FirstContentIndex
    /\ parsed.filtered = <<>>
    /\ Len(parsed.relevant_pages) = Len(doc)
    /\ parsed.full_text # ""

-----------------------------------------------------------------------------
(* Claims about the batch runs                                             *)

\* the record parsed_all holds under stem, as a one-element set (empty when
\* there is none)
RecordsOf(dict, stem) == {dict[k].data : k \in {j \in 1..Len(dict) : dict[j].stem = stem}}

\* a record none of whose content fields holds anything
NothingExtracted(data) ==
    /\ data.strand = ""
    /\ data.substrand = ""
    /\ \A k \in 1..Len(ListFields) : data[ListFields[k]] = <<>>

\* C9: in a batch run a PDF that cannot be read yields a record with all
\* fields empty and completeness score 0, every other PDF of the batch is
\* still processed and its record produced, and no failing document ends the
\* batch: main is never ended by an exception, every file that cannot be
\* opened and that the loop has been through has an empty record of score 0,
\* and the file main writes holds a record for every file of the directory.
C9_FailingPdfEmptyRecordBatchContinues ==
    /\ ~aborted
    /\ \A k \in 1..processed :
           pdfs[k].corrupt =>
               /\ RecordsOf(parsed_all, Stem(pdfs[k].name)) # {}
               /\ \A data \in RecordsOf(parsed_all, Stem(pdfs[k].name)) :
                      /\ NothingExtracted(data)
                      /\ calculate_completeness(data).num = 0
    /\ out_file.written =>
           \A k \in 1..Len(pdfs) : RecordsOf(out_file.records, Stem(pdfs[k].name)) # {}

\* the rows of a table without their ids
StoreContent(table) == {[f \in (DOMAIN row) \ {"id"} |-> row[f]] : row \in table}

\* the table after the loop of cbc_parser_new.main has been through the
\* first k files of order, starting from an empty table
RECURSIVE StoreAfter(_, _)
StoreAfter(order, k) ==
    IF k = 0 THEN {}
    ELSE Let(parse_pdf_new(order[k]), LAMBDA data :
             Upsert(StoreAfter(order, k - 1), k,
                    data_to_store(data.subject, data.grade, data, "auto_extracted")))

\* the orders in which n files can be taken
Orders(n) == {p \in [1..n -> 1..n] : \A i, j \in 1..n : i # j => p[i] # p[j]}

\* whatever the order the files are taken in, the store ends up with the
\* content it has now
SameStoreInEveryOrder ==
    \A p \in Orders(Len(pdfs)) :
        StoreContent(StoreAfter([k \in 1..Len(pdfs) |-> pdfs[p[k]]], Len(pdfs)))
            = StoreContent(curriculum)

\* the loop of cbc_parser_new.main has been through every file
BatchStored == script = "cbc_parser_new" /\ processed = Len(pdfs)

\* the subject and grade a file is stored under
KeyOf(pdf) == parse_subject_grade_new(Stem(pdf.name))

DistinctKeys == \A i, j \in 1..Len(pdfs) : i # j => KeyOf(pdfs[i]) # KeyOf(pdfs[j])

\* C10 as stated: for every set of source documents and every order in which
\* the batch processes them, the final content of the curriculum store (the
\* records by subject and grade, with their fields) is the same.
C10_OrderIndependent == BatchStored => SameStoreInEveryOrder

\* what does hold of the code: the final content of the store is the same in
\* every processing order when no two files of the batch are stored under
\* the same subject and grade
OrderIndependentForDistinctKeys == BatchStored /\ DistinctKeys => SameStoreInEveryOrder

-----------------------------------------------------------------------------
(* Claims about the labelled fields                                        *)

\* the page whose lines are the three given ones
LabelledText(strand, substrand, question) ==
    "Strand: " \o strand \o "\nSub-strand: " \o substrand
        \o "\nKey Inquiry Questions: " \o question \o "\n"

\* C11: for a text whose lines are 'Strand: X', 'Sub-strand: Y' and 'Key
\* Inquiry Questions: Q', Q an item of 8 to 300 characters without a question
\* mark, the extractors yield strand X, substrand Y and the one question
\* Q followed by '?'.
C11_LabelledQuestionGetsItsMark ==
    Returned /\ doc[1] = LabelledText("Numbers", "Fractions", "What is a fraction") =>
        /\ parsed.strand = "Numbers"
        /\ parsed.substrand = "Fractions"
        /\ parsed.key_inquiry_questions = <<"What is a fraction?">>

-----------------------------------------------------------------------------
(* Claims about the rules of the classifier                                *)

\* the items the loop does not skip at once: non-empty strings of at least
\* four characters once stripped
Considered(item) == item # "" /\ Len(Strip(item)) >= 4

\* rule 6: a short item that names a known subject and has a teaching word
\* or is very short
ShortSubjectMention(text, lowered) ==
    /\ Len(text) < 80
    /\ ContainsAny(lowered, subject_names)
    /\ (ContainsAny(lowered, teach_words) \/ Len(text) < 30)

\* which of the seven rules the stripped item text matches, in priority order
RuleMatches(text) ==
    Let(Lower(text), LAMBDA lowered :
        << MatchLinkPrefix(lowered),
           Contains(lowered, "link to other") \/ Contains(lowered, "links to other"),
           MatchPciPrefix(lowered),
           MatchValuesPrefix(lowered),
           HasValueKeyword(text, lowered) /\ Len(text) < 200,
           ShortSubjectMention(text, lowered),
           TRUE >>)

\* the list each rule appends to
RuleList == <<"links", "links", "pcis", "values", "values", "links", "competencies">>

\* the string each rule appends: rules 1, 3 and 4 strip their prefix
RuleText(rule, text) ==
    IF rule = 1 THEN Strip(SubLinkPrefix(text))
    ELSE IF rule = 3 THEN Strip(SubPciPrefix(text))
    ELSE IF rule = 4 THEN Strip(SubValuesPrefix(text))
    ELSE text

\* the lowest-numbered rule the item matches
FirstRule(item) ==
    Min({rule \in 1..Len(RuleList) : RuleMatches(Strip(item))[rule]})

\* what the first matching rule of every considered item appends, and to
\* which list, in input order
Placements(input) ==
    MapSeq(Filter(input, Considered), LAMBDA item :
        Let(FirstRule(item), LAMBDA rule :
            [list |-> RuleList[rule], text |-> RuleText(rule, Strip(item))]))

\* what the placements put on one list: "if rest: links.append(rest)" and its
\* like skip an empty remainder
PlacedByFirstRule(placed, list) ==
    MapSeq(Filter(placed, LAMBDA placement :
                      placement.list = list /\ placement.text # ""),
           LAMBDA placement : placement.text)

NoEarlierRule(item) == Considered(item) /\ FirstRule(item) >= 6

\* C13: an item that matches none of rules 1 to 5 is placed in links only if
\* it is under 80 characters, names a known subject and has a teaching word or
\* is under 30 characters; every other such item is placed in competencies,
\* for example the core competency 'Creativity and imagination', which names
\* no known subject.
C13_SubjectMentionOrCompetency ==
    (classified # NotClassified /\ Len(items) = 1 /\ NoEarlierRule(items[1])) =>
        Let(Strip(items[1]), LAMBDA text :
            /\ classified.links = <<text>> => ShortSubjectMention(text, Lower(text))
            /\ classified.links = <<>> => classified.competencies = <<text>>
            /\ text = "Creativity and imagination" =>
                   classified.competencies = <<text>>)

\* C14: each of the four returned lists has no two entries that are equal
\* when compared case-insensitively, and the entries that survive keep the
\* order of their first occurrence in the input.
C14_NoCaseInsensitiveDuplicates ==
    classified # NotClassified =>
        Let(Placements(items), LAMBDA placed :
            \A list \in ListNames :
                classified[list] = DedupLower(PlacedByFirstRule(placed, list)))

\* the string that stands for the item in a list: the item stripped, with the
\* label its first rule removes taken off
Remainder(item) == RuleText(FirstRule(item), Strip(item))

\* entry stands for the item: the item as written, or without a label prefix
Represents(item, entry) ==
    /\ entry # ""
    /\ Let(Strip(item), LAMBDA text :
           entry \in {text, Strip(SubLinkPrefix(text)), Strip(SubPciPrefix(text)),
                      Strip(SubValuesPrefix(text))})

\* the lists that hold an entry standing for the item
ListsOf(item) ==
    {list \in ListNames : \E entry \in Entries(list) : Represents(item, entry)}

\* C15 as stated: every input item that is a non-empty string is represented,
\* possibly with its label prefix stripped and up to duplicate removal, in
\* exactly one of the four output lists; no input item is dropped from all four.
C15_EveryItemInExactlyOneList ==
    classified # NotClassified =>
        \A n \in DOMAIN items :
            items[n] # "" => Cardinality(ListsOf(items[n])) = 1

\* the items the classifier keeps: at least four characters once stripped and
\* something left after the label
Kept(item) == Considered(item) /\ Remainder(item) # ""

\* C15 amended: every kept item is represented in the list of its first rule,
\* the four lists together hold no more entries than there are kept items (no
\* item is put in two lists), and an input without kept items yields four
\* empty lists.
C15_KeptItemsPartitioned ==
    classified # NotClassified =>
        /\ \A n \in DOMAIN items :
               Kept(items[n]) =>
                   /\ RuleList[FirstRule(items[n])] \in ListsOf(items[n])
                   /\ Remainder(items[n]) \in Entries(RuleList[FirstRule(items[n])])
        /\ Len(classified.competencies) + Len(classified.values)
               + Len(classified.links) + Len(classified.pcis)
             <= Cardinality({n \in DOMAIN items : Kept(items[n])})

\* a kept item and a short item were classified together: one is in its list,
\* the other in none
C15_Witness ==
    /\ classified # NotClassified
    /\ items = <<"pci", "PCIs: road safety">>
    /\ classified.pcis = <<"PCIs: road safety">>
    /\ ListsOf("pci") = {}

-----------------------------------------------------------------------------
(* Claims about the completeness score                                     *)

\* 1 for a check that passes, 0 for one that fails
Passed(check) == IF check THEN 1 ELSE 0

\* k: how many of the seven checks the record passes
ChecksPassed(data) ==
    Passed(Strip(data.strand) # "") + Passed(Strip(data.substrand) # "")
    + Passed(Len(data.learning_outcomes) >= 2)
    + Passed(Len(data.key_inquiry_questions) >= 3)
    + Passed(Len(data.suggested_learning_experiences) >= 5)
    + Passed(Len(data.core_competencies) >= 2)
    + Passed(Len(data.values) >= 2)

\* the score insert_curriculum stored with the record of its last call
StoredScore ==
    (CHOOSE row \in curriculum :
        row.subject = lastCall.subject /\ row.grade = lastCall.grade).completeness_score

\* C17: calculate_completeness returns (k / 7) x 100, k the number of the
\* seven checks that pass; the result is within [0, 100]; a record with strand
\* set, substrand empty, 2 outcomes, 0 questions, 6 experiences, 3
\* competencies and 0 values scores 4 of 7.
C17_ScoreIsSeventhsOfHundred ==
    lastCall.op = "insert" =>
        /\ StoredScore = [num |-> ChecksPassed(lastCall.data) * 100, den |-> 7]
        /\ 0 <= StoredScore.num /\ StoredScore.num <= 100 * StoredScore.den
        /\ lastCall.data = ScenarioData => StoredScore = [num |-> 400, den |-> 7]

\* the record of the scenario has been stored over a complete one
C17_Witness ==
    /\ lastCall.op = "insert"
    /\ lastCall.data = ScenarioData
    /\ seq >= 2
    /\ StoredScore.num = 400

-----------------------------------------------------------------------------
(* Claims about the tiers of the extractors                                *)

\* what each tier of extract_learning_outcomes yields on the text of the
\* record: the heading block, the "By the end ...:" blocks, the verb lines
OutcomeTiers ==
    << extract_block_items(parsed.full_text),
       Take(DedupLower(ByEndCaptured(parsed.full_text)), 30),
       Take(DedupLower(VerbLines(clean_lines(parsed.full_text))), 30) >>

\* C18: extract_learning_outcomes returns the result of exactly one tier: the
\* heading block if it yields any item, otherwise the "By the end ...:" block
\* if it yields any item, otherwise the action-verb lines; no lower tier
\* contributes once a tier has yielded something.
C18_OneTierOnly ==
    Returned =>
        Let(OutcomeTiers, LAMBDA tiers :
            /\ tiers[1] # <<>> => parsed.learning_outcomes = tiers[1]
            /\ (tiers[1] = <<>> /\ tiers[2] # <<>>) => parsed.learning_outcomes = tiers[2]
            /\ (tiers[1] = <<>> /\ tiers[2] = <<>>) => parsed.learning_outcomes = tiers[3])

\* the heading block yielded items while the verb lines had items too
C18_Witness ==
    /\ Returned
    /\ OutcomeTiers[1] # <<>>
    /\ OutcomeTiers[3] # <<>>
    /\ parsed.learning_outcomes = OutcomeTiers[1]

\* the items the labelled block of the text of the record yields, as the
\* final loop of the extractor cleans them
LabelledBlockItems ==
    Filter(MapSeq(SleItems(parsed.full_text), CleanLine), LAMBDA exp : Len(exp) >= 15)

\* C19: extract_suggested_learning_experiences gives priority to the labelled
\* "Suggested Learning Experiences" block: when the block yields at least one
\* accepted item the output consists only of items from the block, and the
\* scans of free-standing lines and bulleted spans are used only when the
\* block yields nothing.
C19_LabelledBlockOnly ==
    (Returned /\ LabelledBlockItems # <<>>) =>
        \A n \in 1..Len(parsed.suggested_learning_experiences) :
            \E m \in 1..Len(LabelledBlockItems) :
                parsed.suggested_learning_experiences[n] = LabelledBlockItems[m]

-----------------------------------------------------------------------------
(* Claims about missing input                                              *)

\* the arguments of the call are missing: each is None or empty
MissingInput ==
    /\ invoked.text \in {NULL, ""}
    /\ invoked.lines \in {NoLines, <<>>}

\* the empty result of the function called
EmptyResult ==
    CASE invoked.function = "normalize_text" -> ""
      [] invoked.function = "extract_strand_substrand" -> [strand |-> "", substrand |-> ""]
      [] OTHER -> <<>>

\* C20: every pipeline function is total on missing input: normalize_text on
\* None or the empty string returns the empty string, and each extractor
\* called with empty or absent (None) text or lines returns an empty result;
\* none of them raises an exception.
C20_TotalOnMissingInput ==
    (outcome.called /\ MissingInput) =>
        /\ ~outcome.raised
        /\ outcome.value = EmptyResult

-----------------------------------------------------------------------------
(* Claims about normalize_text                                             *)

\* normalize_text has returned
Normalized == outcome.called /\ invoked.function = "normalize_text" /\ ~outcome.raised

\* C21: for every input string the output of normalize_text contains no
\* carriage return and no run of three or more newlines; every carriage
\* return of the input is a newline before the collapse, so that the input
\* with its carriage returns written as newlines gives the same output.
C21_NoCarriageReturnNoLongRun ==
    Normalized =>
        /\ ~Contains(outcome.value, "\r")
        /\ ~Contains(outcome.value, "\n\n\n")
        /\ outcome.value = normalize_text(ReplaceAll(invoked.text, "\r", "\n"))

\* the input had carriage returns that, folded into newlines, made a run the
\* collapse shortened
C21_Witness ==
    /\ Normalized
    /\ Contains(invoked.text, "\r")
    /\ ~Contains(invoked.text, "\n\n\n")
    /\ Contains(ReplaceAll(invoked.text, "\r", "\n"), "\n\n\n")
    /\ Contains(outcome.value, "\n\n")

-----------------------------------------------------------------------------
(* Claims about the status of a record                                     *)

\* the values of the status enumeration
Statuses == {"auto_extracted", "reviewed", "manual"}

\* C22: in every reachable state of the store each record's status is one of
\* auto_extracted, reviewed, manual; a record created by the extraction
\* pipeline starts as auto_extracted, and no upsert or admin edit can store
\* another status value.
C22_StatusInEnumeration ==
    /\ \A row \in curriculum : row.status \in Statuses
    /\ lastCall.op = "insert" =>
           \A row \in curriculum :
               (row.subject = lastCall.subject /\ row.grade = lastCall.grade)
                   => row.status = "auto_extracted"

\* the content fields of a row: what an edit of the record can change besides
\* status and notes
ContentOf(row) ==
    <<row.strand, row.substrand, row.learning_outcomes, row.key_inquiry_questions,
      row.suggested_learning_experiences, row.core_competencies, row.curriculum_values>>

\* C23: an admin edit (update_curriculum) that changes a content field of an
\* auto_extracted record also bumps its status: after the edit the status is
\* no longer auto_extracted, even when the body carries no status field.
C23_EditBumpsStatus ==
    [][lastCall'.op = "update" =>
          \A row \in curriculum : \A edited \in curriculum' :
              (edited.id = row.id /\ row.status = "auto_extracted"
                 /\ ContentOf(edited) # ContentOf(row))
                  => edited.status # "auto_extracted"]_vars

-----------------------------------------------------------------------------
(* Claims about a failing upsert                                           *)

\* C24: a database error raised while upserting a record reaches the caller
\* of insert_curriculum as an error, the store is left without a partial
\* write for that record, and the batch run does not count the document as
\* stored: a pass of the loop counts the file exactly when the upsert
\* returned, and a pass in which it raised leaves the table as it was.
C24_FailedUpsertNotCountedNotWritten ==
    [][(script = "cbc_parser_new" /\ processed' = processed + 1) =>
          IF lastCall'.op = "insert_raised"
          THEN curriculum' = curriculum /\ seq' = seq /\ success_count' = success_count
          ELSE lastCall'.op = "insert" /\ success_count' = success_count + 1]_vars

\* an upsert raised after another file had been stored, and the run went on
\* to write its backup
C24_Witness ==
    /\ script = "cbc_parser_new"
    /\ lastCall.op = "insert_raised"
    /\ success_count >= 1
    /\ success_count < processed
    /\ Cardinality(curriculum) = success_count
    /\ out_file.written

-----------------------------------------------------------------------------
(* Claims about query_curriculum                                           *)

\* query_curriculum has returned
Queried == outcome.called /\ invoked.function = "query_curriculum"

\* subjects that differ from subject only in letter case
CaseVariants(subject) == {Lower(subject), Upper(subject), Title(subject)}

\* C25: query_curriculum is case-insensitive in the subject: for any store,
\* any grade and any two subjects that differ only in letter case the two
\* calls return the same result (the same record or both None), in all three
\* matching tiers.
C25_SubjectCaseInsensitive ==
    Queried =>
        \A variant \in CaseVariants(invoked.subject) :
            query_curriculum(curriculum, variant, invoked.grade) = outcome.value

\* a subject in upper case found a record through the partial match, in a
\* store with two records
C25_Witness ==
    /\ Queried
    /\ Cardinality(curriculum) >= 2
    /\ invoked.subject = "SPORTS"
    /\ outcome.value # <<>>
    /\ outcome.value[1].subject = "creative_arts_and_sports"

-----------------------------------------------------------------------------
(* Claims about the generators                                             *)

\* a generator has returned or raised
Generated == outcome.called /\ invoked.function \in Generators

\* query_curriculum finds no record for the subject and grade of the call
NoRecordMatches == query_curriculum(curriculum, invoked.subject, invoked.grade) = <<>>

\* C26: when no stored record matches the requested subject and grade,
\* generate_lesson_plan, generate_scheme_of_work and generate_rubric each
\* return, without raising, a result with success = False, a non-empty error
\* and empty content.
C26_NotFoundIsFailureResult ==
    (Generated /\ NoRecordMatches) =>
        /\ ~outcome.raised
        /\ outcome.value.success = FALSE
        /\ outcome.value.error # ""
        /\ outcome.value.content = ""

\* generate_rubric was asked for a grade that the one record of the store
\* does not have
C26_Witness ==
    /\ Generated
    /\ invoked.function = "generate_rubric"
    /\ invoked.grade = "Grade 9"
    /\ \E row \in curriculum : row.subject = "maths" /\ row.grade = "Grade 7"
    /\ outcome.value = NotFound(invoked.subject, "Grade 9")

\* generate_scheme_of_work has returned a scheme
SchemeGenerated ==
    /\ outcome.called
    /\ invoked.function = "generate_scheme_of_work"
    /\ outcome.value.success

\* C28: for every lesson count and grade the scheme has exactly
\* total_lessons rows, numbered 1..total_lessons without gaps, in at most 13
\* weeks, so the number of rows equals the Total Lessons figure of the
\* footer, also when the week count is capped at 13.
C28_RowsEqualTotalLessons ==
    SchemeGenerated =>
        /\ Len(outcome.value.content.table_rows) = outcome.value.content.total_lessons
        /\ \A n \in 1..Len(outcome.value.content.table_rows) :
               /\ outcome.value.content.table_rows[n].lesson = n
               /\ outcome.value.content.table_rows[n].week \in 1..TermWeeks

-----------------------------------------------------------------------------
(* Claims about chat                                                       *)

\* the two providers in the fallback order
FallbackOrder == <<"gemini", "openrouter">>

\* what a call of the provider's chat_with_ai gives for the arguments of chat
ProviderResult(provider) ==
    IF provider = "gemini"
    THEN GeminiChatWithAI(ai_services.gemini, conversation.message, conversation.context)
    ELSE OpenRouterChatWithAI(ai_services.openrouter, conversation.message,
                              conversation.context)

\* the provider is initialized and its call succeeds
Succeeds(provider) == ai_services[provider].initialized /\ ProviderResult(provider).success

\* C27: chat follows the fallback order Gemini then OpenRouter: OpenRouter
\* is called only when Gemini is not initialized or its call did not
\* succeed, a provider that is not initialized is never called, the result
\* is that of the first initialized provider whose call succeeded, and when
\* there is none it is the failure "All AI services failed or unavailable".
C27_FallbackOrder ==
    conversation.called =>
        /\ conversation.calls
               \in {SubseqAt(FallbackOrder, I) : I \in SUBSET (1..Len(FallbackOrder))}
        /\ \A n \in 1..Len(conversation.calls) :
               ai_services[conversation.calls[n]].initialized
        /\ (\E n \in 1..Len(conversation.calls) : conversation.calls[n] = "openrouter")
               => ~Succeeds("gemini")
        /\ conversation.result.success
               <=> \E n \in 1..Len(FallbackOrder) : Succeeds(FallbackOrder[n])
        /\ \A n \in 1..Len(FallbackOrder) :
               (Succeeds(FallbackOrder[n]) /\ \A k \in 1..(n - 1) : ~Succeeds(FallbackOrder[k]))
                   => conversation.result = ProviderResult(FallbackOrder[n])
        /\ (\A n \in 1..Len(FallbackOrder) : ~Succeeds(FallbackOrder[n]))
               => conversation.result = AllFailed

\* Gemini was initialized and its call failed, OpenRouter answered
C27_Witness ==
    /\ conversation.called
    /\ conversation.calls = <<"gemini", "openrouter">>
    /\ ai_services.gemini.backend = "raises"
    /\ conversation.result.success
    /\ conversation.result.response = "OpenRouter: Grade 7 maths\n\nUser query: What is a fraction?"

-----------------------------------------------------------------------------
(* Claims about the BackgroundTaskScheduler                                *)

\* the monitor threads that are in the pass over the tasks
ExecutingTasks == {t \in 1..Len(threads) : threads[t] = "tasks"}

\* C29: for every interleaving of start() and stop() with the monitor loop
\* at most one monitor loop is executing tasks at any time: start() while
\* running creates no second thread, and stop() followed by start() never
\* leaves the old loop and the new loop both running.
C29_AtMostOneMonitorLoop == Cardinality(ExecutingTasks) <= 1

-----------------------------------------------------------------------------
(* Claims about the records an upsert leaves alone                         *)

\* the columns the DO UPDATE SET clause assigns, last_updated apart
Overwritten(row) ==
    [strand |-> row.strand,
     substrand |-> row.substrand,
     learning_outcomes |-> row.learning_outcomes,
     key_inquiry_questions |-> row.key_inquiry_questions,
     suggested_learning_experiences |-> row.suggested_learning_experiences,
     core_competencies |-> row.core_competencies,
     curriculum_values |-> row.curriculum_values,
     status |-> row.status,
     completeness_score |-> row.completeness_score]

\* what the upsert of d does to table and leaves as after
ChangesOnlyItsKey(table, after, d) ==
    /\ {row \in table : ~Conflict(row, d)} = {row \in after : ~Conflict(row, d)}
    /\ \A row \in table :
           Conflict(row, d) =>
               \E kept \in after :
                   /\ Conflict(kept, d)
                   /\ kept.id = row.id
                   /\ kept.notes = row.notes
                   /\ Overwritten(kept) = Overwritten(d)

\* C30: insert_curriculum for key (subject, grade) changes only the record
\* with that key: every record with another key is left unchanged, and when
\* the key already exists the record keeps its id and its notes while its
\* content fields, status and score are overwritten.
C30_UpsertChangesOnlyItsKey ==
    [][lastCall'.op = "insert" =>
          ChangesOnlyItsKey(curriculum, curriculum',
                            data_to_store(lastCall'.subject, lastCall'.grade, lastCall'.data,
                                          "auto_extracted"))]_vars

\* a record with notes written by an admin edit was upserted again next to
\* a record with another key: it kept its id and notes and took the new
\* content
C30_Witness ==
    /\ lastCall.op = "insert"
    /\ \E row \in curriculum, other \in curriculum :
           /\ row.subject = lastCall.subject /\ row.grade = lastCall.grade
           /\ ~Conflict(other, row)
           /\ row.id < other.id
           /\ row.notes = "checked"
           /\ row.strand = lastCall.data.strand
           /\ row.curriculum_values = json_dumps(lastCall.data.values)
           /\ row.curriculum_values # json_dumps(<<"Unity", "Respect">>)

=============================================================================
